---------------------------- MODULE Spec2Model ----------------------------
(***************************************************************************)
(* A model of the tcp-stack crate: sequence arithmetic, NewReno congestion *)
(* control, the reorder buffer, the retransmission manager with its timer, *)
(* the connection's control block, the sliding window, the checksum, the   *)
(* IPv4 and TCP header codecs and the demultiplexer.                       *)
(*                                                                         *)
(* u32 values are kept at their full width.  TLC's integers stop at        *)
(* 2^31 - 1, so a u32 is the pair <<hi, lo>> of its two 16-bit halves and  *)
(* the arithmetic below is carried out on the halves.                      *)
(***************************************************************************)
EXTENDS Integers, Sequences, FiniteSets, TLC

Limb == 2^16
Half == 2^15

\* The u32 whose value is n, for 0 <= n < 2^31.
u32(n) == <<n \div Limb, n % Limb>>

U32_MAX == <<Limb - 1, Limb - 1>>

\* u32::wrapping_add
wrapping_add_u32(a, b) ==
  LET lo == a[2] + b[2]
      hi == a[1] + b[1] + (lo \div Limb)
  IN  <<hi % Limb, lo % Limb>>

\* Whether a + b leaves the u32 range (the `+` operator panics there when
\* overflow checks are compiled in, and wraps otherwise).
add_overflows(a, b) == a[1] + b[1] + ((a[2] + b[2]) \div Limb) >= Limb

\* u32::wrapping_sub
wrapping_sub_u32(a, b) ==
  LET lo == a[2] - b[2]
      borrow == IF lo < 0 THEN 1 ELSE 0
      hi == a[1] - b[1] - borrow
  IN  <<(hi + Limb) % Limb, (lo + Limb) % Limb>>

\* The derived integer order on u32: <, <=, >, >=.
lt_u32(a, b) == a[1] < b[1] \/ (a[1] = b[1] /\ a[2] < b[2])
le_u32(a, b) == a = b \/ lt_u32(a, b)
gt_u32(a, b) == lt_u32(b, a)
ge_u32(a, b) == le_u32(b, a)

\* Ord::max on u32
max_u32(a, b) == IF lt_u32(a, b) THEN b ELSE a

\* a * b mod 2^32 and whether the product leaves the u32 range, for a < 2^15
\* (the only multiplications of the crate have a = initial_mss or a = 2, 3).
wrapping_mul_u32(a, b) ==
  LET lo == a[2] * b[2]
      hi == a[2] * b[1] + (lo \div Limb)
  IN  <<hi % Limb, lo % Limb>>

mul_overflows(a, b) == a[2] * b[1] + ((a[2] * b[2]) \div Limb) >= Limb

\* x / 2
half_u32(x) == <<x[1] \div 2, (x[1] % 2) * Half + (x[2] \div 2)>>

\* x / c on u32 (integer division), for c # 0.  With c >= 2^31 the quotient
\* is 0 or 1; otherwise x = 2*xh + xb is divided through its half xh, which
\* fits a TLC integer.
div_u32(x, c) ==
  IF c[1] >= Half
  THEN IF ge_u32(x, c) THEN u32(1) ELSE u32(0)
  ELSE LET cn == c[1] * Limb + c[2]
           xh == x[1] * Half + (x[2] \div 2)
           xb == x[2] % 2
           q0 == u32(xh \div cn)
           r0 == xh % cn
           extra == IF r0 >= cn - r0 - xb THEN u32(1) ELSE u32(0)
       IN  wrapping_add_u32(wrapping_add_u32(q0, q0), extra)

(***************************************************************************)
(* utils/seq.rs: SeqNumber                                                 *)
(***************************************************************************)
wrapping_add(self, other) == wrapping_add_u32(self, other)

diff(self, other) == wrapping_sub_u32(self, other)

\* Mutation of before: the comparison with 0x8000_0000 made inclusive.
before_inclusive(self, other) == ge_u32(diff(self, other), <<Half, 0>>)

before(self, other) == gt_u32(diff(self, other), <<Half, 0>>)

\* Mutation of after: the test made inclusive (self at or after other).
after_or_equal(self, other) == ~before(self, other)

after(self, other) == before(other, self)

(***************************************************************************)
(* The build.  The `+`, `+=` and `*` operators on u32 panic on overflow    *)
(* when overflow checks are compiled in (the dev profile) and wrap when    *)
(* they are not (the release profile); a division by zero panics in both.  *)
(* overflow_checks is fixed at the start of a run; panicked records that a *)
(* call has panicked, after which the object is not used again.            *)
(***************************************************************************)
VARIABLES overflow_checks, panicked

(***************************************************************************)
(* congestion/newreno.rs: NewReno                                          *)
(***************************************************************************)
VARIABLES cc, cc_hist, call

initial_mss == 1460

NewReno_new ==
  [cwnd |-> u32(initial_mss),
   ssthresh |-> U32_MAX,
   state |-> "SlowStart",
   dup_acks |-> 0,
   last_cwnd_reduction |-> u32(0),
   initial_mss |-> u32(initial_mss)]

\* The SlowStart arm of on_ack.  Each arm yields the object as the call
\* leaves it and whether the call panicked (at the operation that did).
on_ack_slow_start(self, bytes_acked, checks) ==
  IF add_overflows(self.cwnd, bytes_acked) /\ checks
  THEN [self |-> self, panic |-> TRUE]
  ELSE LET s1 == [self EXCEPT !.cwnd = wrapping_add_u32(self.cwnd, bytes_acked)]
           two_mss == wrapping_mul_u32(u32(2), self.initial_mss)
       IN  IF ge_u32(s1.cwnd, s1.ssthresh)
           THEN LET s2 == [s1 EXCEPT !.state = "CongestionAvoidance"]
                IN  IF add_overflows(s2.ssthresh, two_mss) /\ checks
                    THEN [self |-> s2, panic |-> TRUE]
                    ELSE [self |-> [s2 EXCEPT !.cwnd = wrapping_add_u32(s2.ssthresh, two_mss)],
                          panic |-> FALSE]
           ELSE [self |-> s1, panic |-> FALSE]

\* The CongestionAvoidance arm of on_ack.
on_ack_congestion_avoidance(self, bytes_acked, checks) ==
  IF mul_overflows(self.initial_mss, bytes_acked) /\ checks
  THEN [self |-> self, panic |-> TRUE]
  ELSE IF self.cwnd = u32(0)
  THEN [self |-> self, panic |-> TRUE]
  ELSE LET inc == div_u32(wrapping_mul_u32(self.initial_mss, bytes_acked), self.cwnd)
       IN  IF add_overflows(self.cwnd, inc) /\ checks
           THEN [self |-> self, panic |-> TRUE]
           ELSE [self |-> [self EXCEPT !.cwnd = wrapping_add_u32(self.cwnd, inc)],
                 panic |-> FALSE]

\* The FastRecovery arm of on_ack.
on_ack_fast_recovery(self, ack) ==
  IF after(ack, self.last_cwnd_reduction)
  THEN [self |-> [self EXCEPT !.state = "CongestionAvoidance", !.cwnd = self.ssthresh],
        panic |-> FALSE]
  ELSE [self |-> self, panic |-> FALSE]

on_ack(self, ack, bytes_acked, checks) ==
  LET r == CASE self.state = "SlowStart" -> on_ack_slow_start(self, bytes_acked, checks)
             [] self.state = "CongestionAvoidance" ->
                  on_ack_congestion_avoidance(self, bytes_acked, checks)
             [] self.state = "FastRecovery" -> on_ack_fast_recovery(self, ack)
  IN  IF r.panic THEN r
      ELSE [self |-> [r.self EXCEPT !.dup_acks = 0], panic |-> FALSE]

\* Mutation of enter_fast_retransmit: the window inflated by two segments
\* instead of three.
enter_fast_retransmit_two_mss(self) ==
  LET th == max_u32(half_u32(self.cwnd), wrapping_mul_u32(u32(2), self.initial_mss))
  IN  [self EXCEPT !.ssthresh = th,
                   !.cwnd = wrapping_add_u32(th, wrapping_mul_u32(u32(2), self.initial_mss)),
                   !.state = "FastRecovery",
                   !.dup_acks = 3]

enter_fast_retransmit(self) ==
  LET th == max_u32(half_u32(self.cwnd), wrapping_mul_u32(u32(2), self.initial_mss))
  IN  [self EXCEPT !.ssthresh = th,
                   !.cwnd = wrapping_add_u32(th, wrapping_mul_u32(u32(3), self.initial_mss)),
                   !.state = "FastRecovery",
                   !.dup_acks = 3]

on_duplicate_ack(self, checks) ==
  LET s1 == [self EXCEPT !.dup_acks = self.dup_acks + 1]
  IN  IF s1.dup_acks = 3
      THEN [self |-> enter_fast_retransmit(s1), panic |-> FALSE]
      ELSE IF s1.dup_acks > 3 /\ s1.state = "FastRecovery"
      THEN IF add_overflows(s1.cwnd, s1.initial_mss) /\ checks
           THEN [self |-> s1, panic |-> TRUE]
           ELSE [self |-> [s1 EXCEPT !.cwnd = wrapping_add_u32(s1.cwnd, s1.initial_mss)],
                 panic |-> FALSE]
      ELSE [self |-> s1, panic |-> FALSE]

\* Mutation of on_timeout: the duplicate-ACK count is not reset.
on_timeout_keeps_dup_acks(self) ==
  [self EXCEPT !.ssthresh = max_u32(half_u32(self.cwnd),
                                    wrapping_mul_u32(u32(2), self.initial_mss)),
               !.cwnd = self.initial_mss,
               !.state = "SlowStart"]

on_timeout(self) ==
  [self EXCEPT !.ssthresh = max_u32(half_u32(self.cwnd),
                                    wrapping_mul_u32(u32(2), self.initial_mss)),
               !.cwnd = self.initial_mss,
               !.state = "SlowStart",
               !.dup_acks = 0]

(***************************************************************************)
(* reliability/reorder.rs: ReorderBuffer                                   *)
(*                                                                         *)
(* segments is the BTreeMap<u32, Vec<u8>>: a function from the held keys   *)
(* to their byte sequences.                                                *)
(***************************************************************************)
VARIABLES rb, rb_ret, rb_hist

ReorderBuffer_new ==
  [segments |-> <<>>,
   next_expected |-> u32(0),
   max_buffer_size |-> 1024 * 1024]

\* BTreeMap::insert (an entry under the same key is replaced) and ::remove.
map_insert(m, k, v) == [x \in (DOMAIN m) \cup {k} |-> IF x = k THEN v ELSE m[x]]
map_remove(m, k) == [x \in (DOMAIN m) \ {k} |-> m[x]]

\* The test of one held entry in is_duplicate's loop, on the sum seq + len
\* as the build computes it.
entry_overlaps(start, existing_data, seq_val, sum) ==
  LET existing_end == wrapping_add_u32(start, u32(Len(existing_data)))
  IN  lt_u32(seq_val, existing_end) /\ lt_u32(start, sum)

\* Mutation of is_duplicate: the test against next_expected is missing.
is_duplicate_keeps_stale(self, seq, data, checks) ==
  LET len == u32(Len(data))
      reached == {start \in DOMAIN self.segments :
                    lt_u32(seq, wrapping_add_u32(start, u32(Len(self.segments[start]))))}
  IN  IF checks /\ add_overflows(seq, len) /\ reached # {}
      THEN [dup |-> FALSE, panic |-> TRUE]
      ELSE [dup |-> \E start \in DOMAIN self.segments :
                      entry_overlaps(start, self.segments[start], seq,
                                     wrapping_add_u32(seq, len)),
            panic |-> FALSE]

\* is_duplicate: [dup, panic].  seq_val + len is evaluated for the entries
\* with seq_val < existing_end only (&& short-circuits); where it overflows a
\* build with overflow checks panics at the first of them.
is_duplicate(self, seq, data, checks) ==
  IF before(seq, self.next_expected)
  THEN [dup |-> TRUE, panic |-> FALSE]
  ELSE LET len == u32(Len(data))
           reached == {start \in DOMAIN self.segments :
                         lt_u32(seq, wrapping_add_u32(start, u32(Len(self.segments[start]))))}
       IN  IF checks /\ add_overflows(seq, len) /\ reached # {}
           THEN [dup |-> FALSE, panic |-> TRUE]
           ELSE [dup |-> \E start \in DOMAIN self.segments :
                           entry_overlaps(start, self.segments[start], seq,
                                          wrapping_add_u32(seq, len)),
                 panic |-> FALSE]

\* The `while let Some(data) = self.segments.remove(&self.next_expected.0)`
\* loop of add.
RECURSIVE drain(_, _, _)
drain(segments, next_expected, ready) ==
  IF next_expected \in DOMAIN segments
  THEN LET data == segments[next_expected]
       IN  drain(map_remove(segments, next_expected),
                 wrapping_add(next_expected, u32(Len(data))),
                 Append(ready, <<next_expected, data>>))
  ELSE [segments |-> segments, next_expected |-> next_expected, ready |-> ready]

\* Whether add's size check turns the segment away.
buffer_full(self) == Cardinality(DOMAIN self.segments) * 1460 >= self.max_buffer_size

\* ReorderBuffer::add: [self, ret, panic]
ReorderBuffer_add(self, seq, data, checks) ==
  LET d == is_duplicate(self, seq, data, checks)
  IN  IF d.panic THEN [self |-> self, ret |-> <<>>, panic |-> TRUE]
      ELSE IF d.dup THEN [self |-> self, ret |-> <<>>, panic |-> FALSE]
      ELSE IF buffer_full(self) THEN [self |-> self, ret |-> <<>>, panic |-> FALSE]
      ELSE LET r == drain(map_insert(self.segments, seq, data), self.next_expected, <<>>)
           IN  [self |-> [self EXCEPT !.segments = r.segments,
                                      !.next_expected = r.next_expected],
                ret |-> r.ready,
                panic |-> FALSE]

set_next_expected(self, seq) == [self EXCEPT !.next_expected = seq]

ReorderBuffer_clear(self) == [self EXCEPT !.segments = <<>>]

(***************************************************************************)
(* connection/timer.rs: Timer.  Instants are whole seconds on the clock    *)
(* `now`.                                                                  *)
(***************************************************************************)
VARIABLES now

\* Option<Instant>
None == <<>>
Some(x) == <<x>>

Timer_new == [deadline |-> None, duration |-> 0]

Timer_start(self, duration, t) == [deadline |-> Some(t + duration), duration |-> duration]

Timer_cancel(self) == [self EXCEPT !.deadline = None]

is_expired(self, t) == self.deadline # None /\ t >= self.deadline[1]

(***************************************************************************)
(* reliability/retransmit.rs: RetransmissionManager                        *)
(*                                                                         *)
(* pending is the HashMap<u32, PendingSegment>, keyed by seq.  A segment's *)
(* payload is carried through untouched and is left out; a returned        *)
(* Vec<PendingSegment> is the set of its elements (the HashMap's iteration *)
(* order is unspecified).                                                  *)
(***************************************************************************)
VARIABLES rm, rm_ret, rm_hist

max_retries == 15

RetransmissionManager_new ==
  [pending |-> <<>>, timer |-> Timer_new, max_retries |-> max_retries]

PendingSegment(seq, len, t) ==
  [seq |-> seq, len |-> len, retransmit_count |-> 0, first_sent |-> t]

Vec(elems) == [kind |-> "Vec", elems |-> elems]

add_segment(self, segment, rto, t) ==
  LET p == map_insert(self.pending, segment.seq, segment)
  IN  [self EXCEPT !.pending = p,
                   !.timer = IF Cardinality(DOMAIN p) = 1
                             THEN Timer_start(self.timer, rto, t)
                             ELSE self.timer]

\* The filter of acknowledge: the keys whose segment it removes.
keys_to_remove(self, ack) ==
  {k \in DOMAIN self.pending :
     ge_u32(ack, wrapping_add_u32(self.pending[k].seq, self.pending[k].len))}

Min2(a, b) == IF a < b THEN a ELSE b

\* (1.0 + elapsed * 2.0).min(60.0), folded with f64::min over the segments.
min_rto(pending, t) ==
  LET per(k) == Min2(1 + (t - pending[k].first_sent) * 2, 60)
  IN  CHOOSE m \in {per(k) : k \in DOMAIN pending} :
        \A k \in DOMAIN pending : m <= per(k)

\* Mutation of acknowledge: the timer is restarted for a second when nothing
\* is left pending, instead of cancelled.
acknowledge_keeps_timer(self, ack, t) ==
  LET gone == keys_to_remove(self, ack)
      left == [k \in (DOMAIN self.pending) \ gone |-> self.pending[k]]
  IN  [self |-> [self EXCEPT !.pending = left,
                             !.timer = IF DOMAIN left # {}
                                       THEN Timer_start(self.timer, min_rto(left, t), t)
                                       ELSE Timer_start(self.timer, 1, t)],
       ret |-> Vec({self.pending[k] : k \in gone})]

\* RetransmissionManager::acknowledge: [self, ret]
acknowledge(self, ack, t) ==
  LET gone == keys_to_remove(self, ack)
      left == [k \in (DOMAIN self.pending) \ gone |-> self.pending[k]]
  IN  [self |-> [self EXCEPT !.pending = left,
                             !.timer = IF DOMAIN left # {}
                                       THEN Timer_start(self.timer, min_rto(left, t), t)
                                       ELSE Timer_cancel(self.timer)],
       ret |-> Vec({self.pending[k] : k \in gone})]

should_retransmit(self, t) == is_expired(self.timer, t) /\ DOMAIN self.pending # {}

\* Mutation of get_retransmit_segments: the timer is left as it expired.
get_retransmit_segments_no_rearm(self, rto, t) ==
  IF ~should_retransmit(self, t)
  THEN [self |-> self, ret |-> Vec({})]
  ELSE LET bumped == [k \in DOMAIN self.pending |->
                        [self.pending[k] EXCEPT !.retransmit_count = @ + 1]]
       IN  [self |-> [self EXCEPT !.pending = bumped],
            ret |-> Vec({bumped[k] : k \in {x \in DOMAIN bumped :
                           bumped[x].retransmit_count <= self.max_retries}})]

\* Mutation of get_retransmit_segments: a segment counted past max_retries is
\* dropped from pending.
get_retransmit_segments_drops_exhausted(self, rto, t) ==
  IF ~should_retransmit(self, t)
  THEN [self |-> self, ret |-> Vec({})]
  ELSE LET bumped == [k \in DOMAIN self.pending |->
                        [self.pending[k] EXCEPT !.retransmit_count = @ + 1]]
           kept == {x \in DOMAIN bumped : bumped[x].retransmit_count <= self.max_retries}
       IN  [self |-> [self EXCEPT !.pending = [k \in kept |-> bumped[k]],
                                  !.timer = Timer_start(self.timer, rto * 2, t)],
            ret |-> Vec({bumped[k] : k \in kept})]

\* Mutation of get_retransmit_segments: the max_retries filter is missing.
get_retransmit_segments_uncapped(self, rto, t) ==
  IF ~should_retransmit(self, t)
  THEN [self |-> self, ret |-> Vec({})]
  ELSE LET bumped == [k \in DOMAIN self.pending |->
                        [self.pending[k] EXCEPT !.retransmit_count = @ + 1]]
       IN  [self |-> [self EXCEPT !.pending = bumped,
                                  !.timer = Timer_start(self.timer, rto * 2, t)],
            ret |-> Vec({bumped[k] : k \in DOMAIN bumped})]

\* RetransmissionManager::get_retransmit_segments: [self, ret]
get_retransmit_segments(self, rto, t) ==
  IF ~should_retransmit(self, t)
  THEN [self |-> self, ret |-> Vec({})]
  ELSE LET bumped == [k \in DOMAIN self.pending |->
                        [self.pending[k] EXCEPT !.retransmit_count = @ + 1]]
       IN  [self |-> [self EXCEPT !.pending = bumped,
                                  !.timer = Timer_start(self.timer, rto * 2, t)],
            ret |-> Vec({bumped[k] : k \in {x \in DOMAIN bumped :
                           bumped[x].retransmit_count <= self.max_retries}})]

\* Mutation of clear: the timer is left running.
RetransmissionManager_clear_keeps_timer(self) == [self EXCEPT !.pending = <<>>]

RetransmissionManager_clear(self) ==
  [self EXCEPT !.pending = <<>>, !.timer = Timer_cancel(self.timer)]

pending_count(self) == Cardinality(DOMAIN self.pending)

(***************************************************************************)
(* connection/states.rs, connection/control.rs, connection/mod.rs          *)
(***************************************************************************)
VARIABLES control

TcpState ==
  {"Closed", "Listen", "SynSent", "SynReceived", "Established", "FinWait1",
   "FinWait2", "CloseWait", "Closing", "LastAck", "TimeWait"}

\* ControlBlock::new: the connection state and the activity stamp (the
\* components the block owns are the variables cc, rb and rm above).
ControlBlock_new(t) == [state |-> "Closed", last_activity |-> t]

update_activity(self, t) == [self EXCEPT !.last_activity = t]

\* TcpConnection::set_state
set_state(self, state) == [self EXCEPT !.state = state]

(***************************************************************************)
(* flow_control/window.rs: SlidingWindow                                   *)
(*                                                                         *)
(* sw is the window, sw_ret the u32 the last call returned (<<>> where it   *)
(* returned none), sw_ok the bool it returned (FALSE where none), sw_hist   *)
(* the number of calls that changed the window.                            *)
(***************************************************************************)
VARIABLES sw, sw_ret, sw_ok, sw_hist

SlidingWindow_new(size) == [size |-> size, left_edge |-> u32(0), right_edge |-> size]

advance(self, ack) ==
  IF after(ack, self.left_edge)
  THEN [self EXCEPT !.left_edge = ack, !.right_edge = wrapping_add(ack, self.size)]
  ELSE self

\* Mutation of can_send: the segment has to end strictly inside the window.
can_send_strictly_inside(self, seq, len) ==
  before(wrapping_add(seq, len), self.right_edge)

can_send(self, seq, len) ==
  LET seg_end == wrapping_add(seq, len)
  IN  ~after(seg_end, self.right_edge)

\* Mutation of available: the operands of diff are swapped.
available_swapped(self, next_seq) ==
  IF next_seq = self.right_edge \/ after(next_seq, self.right_edge)
  THEN u32(0)
  ELSE diff(next_seq, self.right_edge)

available(self, next_seq) ==
  IF next_seq = self.right_edge \/ after(next_seq, self.right_edge)
  THEN u32(0)
  ELSE diff(self.right_edge, next_seq)

\* Mutation of set_size: the right edge is left where it was.
set_size_keeps_edge(self, size) == [self EXCEPT !.size = size]

set_size(self, size) ==
  [self EXCEPT !.size = size, !.right_edge = wrapping_add(self.left_edge, size)]

(***************************************************************************)
(* utils/seq.rs: the comparisons of three sequence numbers.  sq holds the  *)
(* numbers last compared and what before and after returned for them.      *)
(***************************************************************************)
VARIABLES sq

Compared(a, b, c) ==
  [a |-> a, b |-> b, c |-> c,
   a_before_b |-> before(a, b), b_before_c |-> before(b, c),
   a_before_c |-> before(a, c), b_after_a |-> after(b, a)]

(***************************************************************************)
(* Bytes: a u8 is an integer 0..255, a u16 an integer 0..65535, a byte     *)
(* span a sequence of u8.  Bit operations are carried out on the integers. *)
(***************************************************************************)
\* a | b
RECURSIVE BitOr(_, _)
BitOr(a, b) ==
  IF a = 0 THEN b
  ELSE IF b = 0 THEN a
  ELSE (IF a % 2 = 1 \/ b % 2 = 1 THEN 1 ELSE 0) + 2 * BitOr(a \div 2, b \div 2)

\* a & b
RECURSIVE BitAnd(_, _)
BitAnd(a, b) ==
  IF a = 0 \/ b = 0 THEN 0
  ELSE (IF a % 2 = 1 /\ b % 2 = 1 THEN 1 ELSE 0) + 2 * BitAnd(a \div 2, b \div 2)

\* x << k on an unsigned integer of w bits: the bits shifted out are lost.
Shl(x, k, w) == (x * 2^k) % 2^w

\* x >> k
Shr(x, k) == x \div 2^k

\* Big-endian bytes of a u16 and of a u32, and back.
u16_to_be_bytes(x) == <<x \div 256, x % 256>>
u16_from_be_bytes(b) == b[1] * 256 + b[2]
u32_to_be_bytes(x) == u16_to_be_bytes(x[1]) \o u16_to_be_bytes(x[2])
u32_from_be_bytes(b) == <<b[1] * 256 + b[2], b[3] * 256 + b[4]>>

\* data[from..to] and data[from..], with Rust's indices (from 0, to
\* exclusive).
Slice(data, from, to) == SubSeq(data, from + 1, to)
SliceFrom(data, from) == SubSeq(data, from + 1, Len(data))

(***************************************************************************)
(* utils/checksum.rs                                                       *)
(***************************************************************************)
\* The 16-bit word that the loop reads at byte index i: two bytes, or the
\* last byte of an odd span shifted left by 8.
word_at(data, i) ==
  IF i + 1 < Len(data) THEN data[i + 1] * 256 + data[i + 2] ELSE data[i + 1] * 256

\* The accumulator after the words first..last (word k starts at byte 2k)
\* were added to it: the u32 sum, and whether an addition left the u32
\* range.  The loop adds the words from left to right; no word is negative,
\* so some addition of the loop overflows exactly when an addition below
\* does, and the wrapped sum is the same.  The words are added by halves to
\* keep the evaluation shallow.
RECURSIVE sum_words(_, _, _)
sum_words(data, first, last) ==
  IF first > last THEN [sum |-> u32(0), overflow |-> FALSE]
  ELSE IF first = last THEN [sum |-> u32(word_at(data, 2 * first)), overflow |-> FALSE]
  ELSE LET mid == (first + last) \div 2
           l == sum_words(data, first, mid)
           r == sum_words(data, mid + 1, last)
       IN  [sum |-> wrapping_add_u32(l.sum, r.sum),
            overflow |-> l.overflow \/ r.overflow \/ add_overflows(l.sum, r.sum)]

\* while (sum & 0xFFFF_0000) != 0 { sum = (sum & 0xFFFF) + (sum >> 16) }
RECURSIVE fold_carries(_)
fold_carries(sum) == IF sum[1] # 0 THEN fold_carries(u32(sum[2] + sum[1])) ELSE sum

\* Mutation of the last line: the folded sum is returned as it is.
complement_dropped(sum) == sum[2]

\* !sum as u16
complement(sum) == (Limb - 1) - sum[2]

\* calculate_checksum: the u16 returned, and whether `sum += word` panicked
\* (with overflow checks compiled in).
calculate_checksum(data, checks) ==
  LET acc == sum_words(data, 0, ((Len(data) + 1) \div 2) - 1)
  IN  [ret |-> complement(fold_carries(acc.sum)), panic |-> checks /\ acc.overflow]

(***************************************************************************)
(* packet/ip.rs: Ipv4Header                                                *)
(***************************************************************************)
Ipv4Header_MIN_SIZE == 20
Ipv4Header_VERSION == 4
PROTOCOL_TCP == 6

Ipv4Header_new(src_addr, dst_addr, payload_len) ==
  [version |-> Ipv4Header_VERSION,
   ihl |-> 5,
   dscp |-> 0,
   ecn |-> 0,
   total_length |-> (Ipv4Header_MIN_SIZE + payload_len) % Limb,
   identification |-> 0,
   flags |-> 64,
   fragment_offset |-> 0,
   ttl |-> 64,
   protocol |-> PROTOCOL_TCP,
   checksum |-> 0,
   src_addr |-> src_addr,
   dst_addr |-> dst_addr,
   options |-> <<>>]

\* Ipv4Header::serialize.  version, ihl, dscp and ecn are u8, flags is a u8
\* widened to u16 before it is shifted.
Ipv4Header_serialize(self) ==
  LET version_ihl == BitOr(Shl(self.version, 4, 8), self.ihl)
      dscp_ecn == BitOr(Shl(self.dscp, 2, 8), BitAnd(self.ecn, 3))
      flags_frag == BitOr(Shl(self.flags, 13, 16), BitAnd(self.fragment_offset, 8191))
      buf == <<version_ihl, dscp_ecn>>
               \o u16_to_be_bytes(self.total_length)
               \o u16_to_be_bytes(self.identification)
               \o u16_to_be_bytes(flags_frag)
               \o <<self.ttl, self.protocol>>
               \o u16_to_be_bytes(0)
               \o self.src_addr
               \o self.dst_addr
               \o self.options
      checksum == calculate_checksum(buf, FALSE).ret
  IN  [buf EXCEPT ![11] = Shr(checksum, 8), ![12] = BitAnd(checksum, 255)]

\* Ipv4Header::parse: None, or Some of the header and the payload.
Ipv4Header_parse(data) ==
  IF Len(data) < Ipv4Header_MIN_SIZE THEN None
  ELSE LET version == BitAnd(Shr(data[1], 4), 15)
           ihl == BitAnd(data[1], 15)
           header_len == ihl * 4
           dscp_ecn == data[2]
           flags_frag == u16_from_be_bytes(Slice(data, 6, 8))
       IN  IF version # 4 THEN None
           ELSE IF Len(data) < header_len THEN None
           ELSE Some(<<[version |-> version,
                        ihl |-> ihl,
                        dscp |-> Shr(dscp_ecn, 2),
                        ecn |-> BitAnd(dscp_ecn, 3),
                        total_length |-> u16_from_be_bytes(Slice(data, 2, 4)),
                        identification |-> u16_from_be_bytes(Slice(data, 4, 6)),
                        flags |-> BitAnd(Shr(flags_frag, 13), 7),
                        fragment_offset |-> BitAnd(flags_frag, 8191),
                        ttl |-> data[9],
                        protocol |-> data[10],
                        checksum |-> u16_from_be_bytes(Slice(data, 10, 12)),
                        src_addr |-> Slice(data, 12, 16),
                        dst_addr |-> Slice(data, 16, 20),
                        options |-> IF header_len > Ipv4Header_MIN_SIZE
                                    THEN Slice(data, Ipv4Header_MIN_SIZE, header_len)
                                    ELSE <<>>],
                       SliceFrom(data, header_len)>>)

\* What the round trip of one header went through: the header, its bytes
\* and what parse made of them.
VARIABLES ip

(***************************************************************************)
(* packet/tcp.rs: TcpFlags, TcpOption, TcpHeader                           *)
(***************************************************************************)
FIN == 1
SYN == 2
RST == 4
PSH == 8
ACK == 16
URG == 32
ECE == 64
CWR == 128

TcpFlags_new == 0
with_syn(flags) == BitOr(flags, SYN)
with_ack(flags) == BitOr(flags, ACK)

KIND_END == 0
KIND_NOP == 1
KIND_MSS == 2
KIND_WINDOW_SCALE == 3
KIND_SACK_PERMITTED == 4
KIND_SACK == 5
KIND_TIMESTAMP == 8

\* The variants of TcpOption; left, right, ts_val and ts_ecr are u32.
EndOfList == <<"EndOfList">>
NoOperation == <<"NoOperation">>
MaximumSegmentSize(mss) == <<"MaximumSegmentSize", mss>>
WindowScale(scale) == <<"WindowScale", scale>>
SackPermitted == <<"SackPermitted">>
Sack(left, right) == <<"Sack", left, right>>
Timestamp(ts_val, ts_ecr) == <<"Timestamp", ts_val, ts_ecr>>

TcpOption_serialize(self) ==
  CASE self[1] = "EndOfList" -> <<KIND_END>>
    [] self[1] = "NoOperation" -> <<KIND_NOP>>
    [] self[1] = "MaximumSegmentSize" ->
         <<KIND_MSS, 4, Shr(self[2], 8), BitAnd(self[2], 255)>>
    [] self[1] = "WindowScale" -> <<KIND_WINDOW_SCALE, 3, self[2]>>
    [] self[1] = "SackPermitted" -> <<KIND_SACK_PERMITTED, 2>>
    [] self[1] = "Sack" ->
         <<KIND_SACK, 10>> \o u32_to_be_bytes(self[2]) \o u32_to_be_bytes(self[3])
    [] self[1] = "Timestamp" ->
         <<KIND_TIMESTAMP, 10>> \o u32_to_be_bytes(self[2]) \o u32_to_be_bytes(self[3])

\* TcpOption::parse: None, or Some of the option and the number of bytes it
\* takes.
TcpOption_parse(data) ==
  IF data = <<>> THEN None
  ELSE LET kind == data[1]
       IN  CASE kind = KIND_END -> Some(<<EndOfList, 1>>)
             [] kind = KIND_NOP -> Some(<<NoOperation, 1>>)
             [] kind = KIND_MSS ->
                  IF Len(data) < 4 THEN None
                  ELSE IF Len(data) < data[2] THEN None
                  ELSE Some(<<MaximumSegmentSize(u16_from_be_bytes(Slice(data, 2, 4))),
                              data[2]>>)
             [] kind = KIND_WINDOW_SCALE ->
                  IF Len(data) < 3 THEN None ELSE Some(<<WindowScale(data[3]), 3>>)
             [] kind = KIND_SACK_PERMITTED ->
                  IF Len(data) < 2 THEN None ELSE Some(<<SackPermitted, 2>>)
             [] kind = KIND_TIMESTAMP ->
                  IF Len(data) < 10 THEN None
                  ELSE Some(<<Timestamp(u32_from_be_bytes(Slice(data, 2, 6)),
                                        u32_from_be_bytes(Slice(data, 6, 10))), 10>>)
             [] OTHER ->
                  IF Len(data) < 2 THEN None
                  ELSE IF data[2] < 2 \/ Len(data) < data[2] THEN None
                  ELSE Some(<<NoOperation, data[2]>>)

TcpHeader_MIN_SIZE == 20

TcpHeader_new(src_port, dst_port) ==
  [src_port |-> src_port,
   dst_port |-> dst_port,
   seq_num |-> u32(0),
   ack_num |-> u32(0),
   data_offset |-> 5,
   flags |-> TcpFlags_new,
   window_size |-> 65535,
   checksum |-> 0,
   urgent_pointer |-> 0,
   options |-> <<>>]

TcpHeader_syn(src_port, dst_port, seq_num, mss) ==
  [TcpHeader_new(src_port, dst_port) EXCEPT
     !.seq_num = seq_num,
     !.flags = with_syn(TcpFlags_new),
     !.options = <<MaximumSegmentSize(mss), SackPermitted,
                   Timestamp(u32(0), u32(0)), WindowScale(7)>>,
     !.data_offset = (TcpHeader_MIN_SIZE + 12) \div 4]

TcpHeader_syn_ack(src_port, dst_port, seq_num, ack_num, mss) ==
  [TcpHeader_syn(src_port, dst_port, seq_num, mss) EXCEPT
     !.flags = with_ack(@),
     !.ack_num = ack_num]

header_len(self) == self.data_offset * 4

\* The bytes of the options, one after the other.
RECURSIVE options_bytes(_)
options_bytes(options) ==
  IF options = <<>> THEN <<>>
  ELSE TcpOption_serialize(Head(options)) \o options_bytes(Tail(options))

\* while buf.len() < self.header_len() { buf.push(0) }
zero_padded(buf, len) ==
  IF Len(buf) < len THEN buf \o [i \in 1..(len - Len(buf)) |-> 0] ELSE buf

TcpHeader_serialize(self) ==
  LET data_offset_flags == BitOr(Shl(self.data_offset, 4, 16), self.flags)
      buf == u16_to_be_bytes(self.src_port)
               \o u16_to_be_bytes(self.dst_port)
               \o u32_to_be_bytes(self.seq_num)
               \o u32_to_be_bytes(self.ack_num)
               \o u16_to_be_bytes(data_offset_flags)
               \o u16_to_be_bytes(self.window_size)
               \o u16_to_be_bytes(0)
               \o u16_to_be_bytes(self.urgent_pointer)
               \o options_bytes(self.options)
  IN  zero_padded(buf, header_len(self))

\* The start of TcpHeader::parse, up to the option loop: None when the span
\* is shorter than 20 bytes or than the header it announces; a panic when
\* the announced header is shorter than 20 bytes (the range
\* data[20..header_len] starts after its end); otherwise the fixed fields
\* and the bytes of the options.
parse_fixed(data) ==
  IF Len(data) < TcpHeader_MIN_SIZE
  THEN [ok |-> FALSE, panic |-> FALSE, header |-> TcpHeader_new(0, 0), options_data |-> <<>>]
  ELSE LET data_offset_flags == u16_from_be_bytes(Slice(data, 12, 14))
           data_offset == BitAnd(Shr(data_offset_flags, 4), 15)
           header ==
             [src_port |-> u16_from_be_bytes(Slice(data, 0, 2)),
              dst_port |-> u16_from_be_bytes(Slice(data, 2, 4)),
              seq_num |-> u32_from_be_bytes(Slice(data, 4, 8)),
              ack_num |-> u32_from_be_bytes(Slice(data, 8, 12)),
              data_offset |-> data_offset,
              flags |-> BitAnd(data_offset_flags, 63),
              window_size |-> u16_from_be_bytes(Slice(data, 14, 16)),
              checksum |-> u16_from_be_bytes(Slice(data, 16, 18)),
              urgent_pointer |-> u16_from_be_bytes(Slice(data, 18, 20)),
              options |-> <<>>]
       IN  IF Len(data) < data_offset * 4
           THEN [ok |-> FALSE, panic |-> FALSE, header |-> header, options_data |-> <<>>]
           ELSE IF data_offset * 4 < TcpHeader_MIN_SIZE
           THEN [ok |-> FALSE, panic |-> TRUE, header |-> header, options_data |-> <<>>]
           ELSE [ok |-> TRUE, panic |-> FALSE, header |-> header,
                 options_data |-> Slice(data, TcpHeader_MIN_SIZE, data_offset * 4)]

\* One iteration of the option loop, entered with offset <
\* options_data.len(): the offset and the options after it, and whether it
\* left the loop by break.
option_loop_body(options_data, offset, options) ==
  LET parsed == TcpOption_parse(SliceFrom(options_data, offset))
  IN  IF parsed = None \/ parsed[1][1] = EndOfList
      THEN [offset |-> offset, options |-> options, break |-> TRUE]
      ELSE [offset |-> offset + parsed[1][2],
            options |-> Append(options, parsed[1][1]),
            break |-> FALSE]

\* The option loop from one iteration on: the options it ends with.
RECURSIVE option_loop(_, _, _)
option_loop(options_data, offset, options) ==
  IF offset < Len(options_data)
  THEN LET body == option_loop_body(options_data, offset, options)
       IN  IF body.break THEN body.options
           ELSE option_loop(options_data, body.offset, body.options)
  ELSE options

\* TcpHeader::parse: None, or Some of the header and the payload; and
\* whether it panicked.
TcpHeader_parse(data) ==
  LET fixed == parse_fixed(data)
  IN  IF ~fixed.ok THEN [ret |-> None, panic |-> fixed.panic]
      ELSE [ret |-> Some(<<[fixed.header EXCEPT
                              !.options = option_loop(fixed.options_data, 0, <<>>)],
                           SliceFrom(data, header_len(fixed.header))>>),
            panic |-> FALSE]

\* The round trip of one TcpHeader (the header, its bytes and what parse
\* made of them), and one run of TcpHeader::parse, iteration by iteration
\* (pc is "idle", "loop", "end" or "done").
VARIABLES tcp, pr

(***************************************************************************)
(* demux/mod.rs: ConnectionKey, Demultiplexer                              *)
(***************************************************************************)
SocketAddrV4_new(ip_addr, port) == <<ip_addr, port>>

ConnectionKey_new(local, remote) == [local |-> local, remote |-> remote]

from_headers(ip_header, tcp_header) ==
  Some(ConnectionKey_new(SocketAddrV4_new(ip_header.dst_addr, tcp_header.dst_port),
                         SocketAddrV4_new(ip_header.src_addr, tcp_header.src_port)))

Demultiplexer_new == [connections |-> <<>>]

\* Mutation of register: a key that is present keeps its id.
register_keeps_first(self, key, id) ==
  IF key \in DOMAIN self.connections THEN self
  ELSE [self EXCEPT !.connections = map_insert(@, key, id)]

register(self, key, id) == [self EXCEPT !.connections = map_insert(@, key, id)]

unregister(self, key) == [self EXCEPT !.connections = map_remove(@, key)]

find(self, key) ==
  IF key \in DOMAIN self.connections THEN Some(self.connections[key]) ELSE None

\* The demultiplexer, what the last find returned and the register and
\* unregister calls so far.
VARIABLES demux, dm_ret, dm_hist

\* One run of the checksum over a span with a checksum field: the span, the
\* field's offset, the checksum of the span and the checksum of the span
\* with that checksum patched in.
VARIABLES ck

(***************************************************************************)
(* The state machine                                                       *)
(***************************************************************************)
vars ==
  <<overflow_checks, panicked, cc, cc_hist, call, rb, rb_ret, rb_hist, now,
    rm, rm_ret, rm_hist, control, sw, sw_ret, sw_ok, sw_hist, sq,
    ip, tcp, pr, demux, dm_ret, dm_hist, ck>>

ccVars == <<cc, cc_hist>>
rbVars == <<rb, rb_ret, rb_hist>>
rmVars == <<rm, rm_ret, rm_hist>>
swVars == <<sw, sw_ret, sw_ok, sw_hist>>
dmVars == <<demux, dm_ret, dm_hist>>
pkVars == <<ip, tcp, pr, dmVars, ck>>

\* Bounds of the exploration.
MaxWinCalls == 3
MaxCcCalls == 7
MaxAdds == 3
FillAdds == 721
MaxOff == 3
MaxTime == 3
RetryTime == 36
RetryAddBy == 2
ConnTime == 4
MaxSpan == 5
OptionAreaLen == 4
MaxIterations == 6
MaxDemuxCalls == 3

\* The last call: its name, its arguments and the object it was made on.
Call(op, args, pre) == [op |-> op, args |-> args, pre |-> pre]

\* The state after construction.  The history variables cc_hist, rb_hist and
\* rm_hist record what the calls so far were given and returned.
Init ==
  /\ overflow_checks \in BOOLEAN
  /\ panicked = FALSE
  /\ call = Call("new", <<>>, <<>>)
  /\ cc = NewReno_new
  /\ cc_hist = [timed_out |-> FALSE, loss_seen |-> FALSE, consec_dups |-> 0, calls |-> 0]
  /\ rb = ReorderBuffer_new
  /\ rb_ret = <<>>
  /\ rb_hist = [init_next |-> u32(0), set |-> FALSE, offered |-> {}, clean |-> TRUE,
                runs |-> <<>>, calls |-> 0]
  /\ now = 0
  /\ rm = RetransmissionManager_new
  /\ rm_ret = Vec({})
  /\ rm_hist = [returned |-> <<>>, acked_all |-> FALSE]
  /\ control = ControlBlock_new(0)
  /\ sw = SlidingWindow_new(u32(65535))
  /\ sw_ret = <<>>
  /\ sw_ok = FALSE
  /\ sw_hist = [calls |-> 0]
  /\ sq = Compared(u32(0), u32(0), u32(0))
  /\ ip = [h |-> Ipv4Header_new(<<0, 0, 0, 0>>, <<0, 0, 0, 0>>, 0), bytes |-> <<>>,
           parsed |-> None]
  /\ tcp = [h |-> TcpHeader_new(0, 0), bytes |-> <<>>, parsed |-> None]
  /\ pr = [data |-> <<>>, options_data |-> <<>>, header |-> TcpHeader_new(0, 0),
           pc |-> "idle", offset |-> 0, options |-> <<>>, iterations |-> 0,
           ret |-> None]
  /\ demux = Demultiplexer_new
  /\ dm_ret = None
  /\ dm_hist = [log |-> <<>>]
  /\ ck = [span |-> [head |-> <<>>, fill |-> 0], pos |-> 0, checksum |-> 0,
           verify |-> 0, wide |-> FALSE]

(*************************** NewReno ***************************************)
\* The acknowledgement numbers and byte counts the calls are given: around
\* last_cwnd_reduction and the half range, and from one byte to a count that
\* takes a one-segment window past 2^32.
AckInputs == {u32(0), u32(1), <<Half - 1, Limb - 1>>, <<Half, 0>>, U32_MAX}
BytesInputs == {u32(1), u32(initial_mss), u32(2 * initial_mss),
                wrapping_sub_u32(u32(0), u32(initial_mss))}

OnAck(ack, bytes_acked) ==
  /\ ~panicked
  /\ cc_hist.calls < MaxCcCalls
  /\ LET r == on_ack(cc, ack, bytes_acked, overflow_checks)
     IN  /\ cc' = r.self
         /\ panicked' = r.panic
  /\ cc_hist' = [cc_hist EXCEPT !.consec_dups = 0, !.calls = @ + 1]
  /\ call' = Call("on_ack", <<ack, bytes_acked>>, cc)
  /\ UNCHANGED <<overflow_checks, rbVars, now, rmVars, control,
                 swVars, sq, pkVars>>

OnDuplicateAck ==
  /\ ~panicked
  /\ cc_hist.calls < MaxCcCalls
  /\ LET r == on_duplicate_ack(cc, overflow_checks)
     IN  /\ cc' = r.self
         /\ panicked' = r.panic
  /\ cc_hist' = [cc_hist EXCEPT !.consec_dups = @ + 1, !.calls = @ + 1,
                                !.loss_seen = @ \/ cc_hist.consec_dups = 2]
  /\ call' = Call("on_duplicate_ack", <<>>, cc)
  /\ UNCHANGED <<overflow_checks, rbVars, now, rmVars, control,
                 swVars, sq, pkVars>>

OnTimeout ==
  /\ ~panicked
  /\ cc_hist.calls < MaxCcCalls
  /\ cc' = on_timeout(cc)
  /\ cc_hist' = [cc_hist EXCEPT !.consec_dups = 0, !.calls = @ + 1,
                                !.timed_out = TRUE, !.loss_seen = TRUE]
  /\ call' = Call("on_timeout", <<>>, cc)
  /\ UNCHANGED <<overflow_checks, panicked, rbVars, now, rmVars, control,
                 swVars, sq, pkVars>>

NextNewReno ==
  \/ \E ack \in AckInputs, bytes_acked \in BytesInputs : OnAck(ack, bytes_acked)
  \/ OnDuplicateAck
  \/ OnTimeout

SpecNewReno == Init /\ [][NextNewReno]_vars

(*************************** ReorderBuffer *********************************)
\* Whether the byte ranges [s, s+l) and [t, t+m), taken mod 2^32, share a
\* byte.
RangesOverlap(s, l, t, m) ==
  /\ l > 0
  /\ m > 0
  /\ \/ lt_u32(wrapping_sub_u32(t, s), u32(l))
     \/ lt_u32(wrapping_sub_u32(s, t), u32(m))

\* The peer's initial sequence numbers tried besides 0: two bytes before the
\* wrap.
IrsInputs == {<<Limb - 1, Limb - 2>>}

\* The arguments of add: sequence numbers from one byte before the first
\* expected byte to MaxOff bytes after it, and up to two bytes of payload.
AddSeqs ==
  {wrapping_sub_u32(rb_hist.init_next, u32(1))}
    \cup {wrapping_add_u32(rb_hist.init_next, u32(k)) : k \in 0..MaxOff}
AddData == {<<>>, <<"a">>, <<"b">>, <<"a", "b">>}

\* set_next_expected, as the connection calls it once the peer's initial
\* sequence number is known: before the first add.
SetNextExpected(seq) ==
  /\ ~rb_hist.set
  /\ rb_hist.calls = 0
  /\ rb' = set_next_expected(rb, seq)
  /\ rb_hist' = [rb_hist EXCEPT !.init_next = seq, !.set = TRUE]
  /\ call' = Call("set_next_expected", <<seq>>, rb)
  /\ UNCHANGED <<overflow_checks, panicked, ccVars, rb_ret, now, rmVars, control,
                 swVars, sq, pkVars>>

Add(seq, data, limit) ==
  /\ ~panicked
  /\ rb_hist.calls < limit
  /\ LET r == ReorderBuffer_add(rb, seq, data, overflow_checks)
     IN  /\ rb' = r.self
         /\ rb_ret' = r.ret
         /\ panicked' = r.panic
         /\ rb_hist' = [rb_hist EXCEPT
              !.set = TRUE,
              !.offered = @ \cup {[seq |-> seq, data |-> data]},
              !.clean = @ /\ \A o \in rb_hist.offered :
                               ~RangesOverlap(o.seq, Len(o.data), seq, Len(data)),
              !.runs = @ \o r.ret,
              !.calls = @ + 1]
  /\ call' = Call("add", <<seq, data>>, rb)
  /\ UNCHANGED <<overflow_checks, ccVars, now, rmVars, control,
                 swVars, sq, pkVars>>

NextReorder ==
  \/ \E seq \in IrsInputs : SetNextExpected(seq)
  \/ \E seq \in AddSeqs, data \in AddData : Add(seq, data, MaxAdds)

SpecReorder == Init /\ [][NextReorder]_vars

\* The burst: one-byte segments arrive for every second byte after the first
\* expected one, in ascending order, and at some point the missing first
\* byte; the run is followed up to the first delivery.
FillOutOfOrder ==
  /\ rb_hist.runs = <<>>
  /\ Add(wrapping_add_u32(rb.next_expected, u32(2 * (1 + Cardinality(DOMAIN rb.segments)))),
         <<"a">>, FillAdds)

FillInOrder ==
  /\ rb_hist.runs = <<>>
  /\ Add(rb.next_expected, <<"b">>, FillAdds)

NextFill ==
  \/ FillOutOfOrder
  \/ FillInOrder

SpecReorderFill == Init /\ [][NextFill]_vars

(*************************** the clock *************************************)
Tick(limit) ==
  /\ now < limit
  /\ now' = now + 1
  /\ call' = Call("tick", <<>>, now)
  /\ UNCHANGED <<overflow_checks, panicked, ccVars, rbVars, rmVars, control,
                 swVars, sq, pkVars>>

(*************************** RetransmissionManager *************************)
\* The arguments: segments that end before the wrap (4294967294 + 1), after
\* it (4294967294 + 3) and clear of it (1 + 1, 1 + 3), acknowledgement
\* numbers on both sides of the wrap, and RTOs of one second (the
\* estimator's floor) and two.
RmSeqs == {<<Limb - 1, Limb - 2>>, u32(1)}
RmLens == {u32(1), u32(3)}
RmAcks == {U32_MAX, u32(0), u32(1), u32(2), u32(4)}
Rtos == {1, 2}

\* Whether ack is greater than seq + len, as a number, for every pending
\* segment (recorded in rm_hist.acked_all by acknowledge, until the next
\* add_segment).
AckPastEveryEnd(self, ack) ==
  \A k \in DOMAIN self.pending :
    /\ ~add_overflows(self.pending[k].seq, self.pending[k].len)
    /\ gt_u32(ack, wrapping_add_u32(self.pending[k].seq, self.pending[k].len))

AddSegment(seq, len, rto) ==
  /\ rm' = add_segment(rm, PendingSegment(seq, len, now), rto, now)
  /\ rm_ret' = Vec({})
  /\ rm_hist' = [rm_hist EXCEPT !.returned = map_insert(@, seq, 0), !.acked_all = FALSE]
  /\ call' = Call("add_segment", <<seq, len, rto>>, rm)
  /\ UNCHANGED <<overflow_checks, panicked, ccVars, rbVars, now, control,
                 swVars, sq, pkVars>>

Acknowledge(ack) ==
  /\ LET r == acknowledge(rm, ack, now)
     IN  /\ rm' = r.self
         /\ rm_ret' = r.ret
         /\ rm_hist' = [rm_hist EXCEPT
              !.returned = [k \in DOMAIN r.self.pending |-> rm_hist.returned[k]],
              !.acked_all = AckPastEveryEnd(rm, ack)]
  /\ call' = Call("acknowledge", <<ack>>, rm)
  /\ UNCHANGED <<overflow_checks, panicked, ccVars, rbVars, now, control,
                 swVars, sq, pkVars>>

GetRetransmitSegments(rto) ==
  /\ LET r == get_retransmit_segments(rm, rto, now)
     IN  /\ rm' = r.self
         /\ rm_ret' = r.ret
         /\ rm_hist' = [rm_hist EXCEPT
              !.returned = [k \in DOMAIN @ |->
                              IF \E seg \in r.ret.elems : seg.seq = k THEN @[k] + 1 ELSE @[k]]]
  /\ call' = Call("get_retransmit_segments", <<rto>>, rm)
  /\ UNCHANGED <<overflow_checks, panicked, ccVars, rbVars, now, control,
                 swVars, sq, pkVars>>

Clear ==
  /\ rm' = RetransmissionManager_clear(rm)
  /\ rm_ret' = Vec({})
  /\ rm_hist' = [rm_hist EXCEPT !.returned = <<>>]
  /\ call' = Call("clear", <<>>, rm)
  /\ UNCHANGED <<overflow_checks, panicked, ccVars, rbVars, now, control,
                 swVars, sq, pkVars>>

NextRetransmit ==
  \/ \E seq \in RmSeqs, len \in RmLens, rto \in Rtos : AddSegment(seq, len, rto)
  \/ \E ack \in RmAcks : Acknowledge(ack)
  \/ \E rto \in Rtos : GetRetransmitSegments(rto)
  \/ Clear
  \/ Tick(MaxTime)

SpecRetransmit == Init /\ [][NextRetransmit]_vars

\* The retry run: segments are queued in the first RetryAddBy seconds and
\* then left unacknowledged while the timer keeps expiring.
NextRetry ==
  \/ now <= RetryAddBy /\ \E seq \in RmSeqs, rto \in Rtos : AddSegment(seq, u32(1), rto)
  \/ \E rto \in Rtos : GetRetransmitSegments(rto)
  \/ Tick(RetryTime)

SpecRetry == Init /\ [][NextRetry]_vars

(*************************** TcpConnection *********************************)
SetState(state) ==
  /\ control' = set_state(control, state)
  /\ call' = Call("set_state", <<state>>, control)
  /\ UNCHANGED <<overflow_checks, panicked, ccVars, rbVars, now, rmVars,
                 swVars, sq, pkVars>>

UpdateActivity ==
  /\ control' = update_activity(control, now)
  /\ call' = Call("update_activity", <<>>, control)
  /\ UNCHANGED <<overflow_checks, panicked, ccVars, rbVars, now, rmVars,
                 swVars, sq, pkVars>>

NextConn ==
  \/ \E state \in TcpState : SetState(state)
  \/ UpdateActivity
  \/ Tick(ConnTime)

SpecConn == Init /\ [][NextConn]_vars

(*************************** the whole crate *******************************)
(*************************** SlidingWindow *********************************)
\* Window sizes up to the whole u32 range, and distances (from the left edge
\* for a sequence number, or as a segment length) inside a small window, at
\* its end, and around half the sequence space.
WinSizes == {u32(0), u32(1), u32(1000), <<Half, 0>>, <<Half, 1>>, U32_MAX}
WinOffsets ==
  {u32(0), u32(1), u32(500), u32(1000), u32(1001),
   <<Half - 1, Limb - 1>>, <<Half, 0>>, <<Half, 1>>, U32_MAX}

WindowNew(size) ==
  /\ sw_hist.calls < MaxWinCalls
  /\ sw' = SlidingWindow_new(size)
  /\ sw_ret' = <<>>
  /\ sw_ok' = FALSE
  /\ sw_hist' = [sw_hist EXCEPT !.calls = @ + 1]
  /\ call' = Call("SlidingWindow::new", <<size>>, sw)
  /\ UNCHANGED <<overflow_checks, panicked, ccVars, rbVars, now, rmVars, control, sq, pkVars>>

Advance(ack) ==
  /\ sw_hist.calls < MaxWinCalls
  /\ sw' = advance(sw, ack)
  /\ sw_ret' = <<>>
  /\ sw_ok' = FALSE
  /\ sw_hist' = [sw_hist EXCEPT !.calls = @ + 1]
  /\ call' = Call("advance", <<ack>>, sw)
  /\ UNCHANGED <<overflow_checks, panicked, ccVars, rbVars, now, rmVars, control, sq, pkVars>>

SetSize(size) ==
  /\ sw_hist.calls < MaxWinCalls
  /\ sw' = set_size(sw, size)
  /\ sw_ret' = <<>>
  /\ sw_ok' = FALSE
  /\ sw_hist' = [sw_hist EXCEPT !.calls = @ + 1]
  /\ call' = Call("set_size", <<size>>, sw)
  /\ UNCHANGED <<overflow_checks, panicked, ccVars, rbVars, now, rmVars, control, sq, pkVars>>

CanSend(seq, len) ==
  /\ sw_ok' = can_send(sw, seq, len)
  /\ sw_ret' = <<>>
  /\ call' = Call("can_send", <<seq, len>>, sw)
  /\ UNCHANGED <<overflow_checks, panicked, ccVars, rbVars, now, rmVars, control, sw,
                 sw_hist, sq, pkVars>>

Available(next_seq) ==
  /\ sw_ret' = available(sw, next_seq)
  /\ sw_ok' = FALSE
  /\ call' = Call("available", <<next_seq>>, sw)
  /\ UNCHANGED <<overflow_checks, panicked, ccVars, rbVars, now, rmVars, control, sw,
                 sw_hist, sq, pkVars>>

NextWindow ==
  \/ \E size \in WinSizes : WindowNew(size)
  \/ \E off \in WinOffsets : Advance(wrapping_add_u32(sw.left_edge, off))
  \/ \E size \in WinSizes : SetSize(size)
  \/ \E off \in WinOffsets, len \in WinOffsets :
       CanSend(wrapping_add_u32(sw.left_edge, off), len)
  \/ \E off \in WinOffsets : Available(wrapping_add_u32(sw.left_edge, off))

SpecWindow == Init /\ [][NextWindow]_vars

(*************************** SeqNumber *************************************)
\* Sequence numbers at both ends of the range and around its middle.
SeqInputs ==
  {u32(0), u32(1), <<Half - 1, Limb - 1>>, <<Half, 0>>, <<Half, 1>>,
   <<Limb - 1, Limb - 2>>, U32_MAX}

Compare(a, b, c) ==
  /\ sq' = Compared(a, b, c)
  /\ call' = Call("before", <<a, b, c>>, <<>>)
  /\ UNCHANGED <<overflow_checks, panicked, ccVars, rbVars, now, rmVars, control, swVars, pkVars>>

NextSeq == \E a \in SeqInputs, b \in SeqInputs, c \in SeqInputs : Compare(a, b, c)

SpecSeq == Init /\ [][NextSeq]_vars

(*************************** Ipv4Header ************************************)
\* The addresses and payload lengths the headers are built with; the last
\* length takes total_length past the u16 range.
IpAddrs == {<<192, 168, 1, 1>>, <<192, 168, 1, 2>>, <<10, 0, 0, 1>>}
PayloadLens == {0, 20, 100, 1460, Limb - 21, Limb - 20}

IpNew(src_addr, dst_addr, payload_len) ==
  /\ ip' = [h |-> Ipv4Header_new(src_addr, dst_addr, payload_len),
            bytes |-> <<>>, parsed |-> None]
  /\ call' = Call("Ipv4Header::new", <<src_addr, dst_addr, payload_len>>, <<>>)
  /\ UNCHANGED <<overflow_checks, panicked, ccVars, rbVars, now, rmVars, control,
                 swVars, sq, tcp, pr, dmVars, ck>>

IpSerialize ==
  /\ call.op = "Ipv4Header::new"
  /\ ip' = [ip EXCEPT !.bytes = Ipv4Header_serialize(ip.h)]
  /\ call' = Call("Ipv4Header::serialize", <<>>, <<>>)
  /\ UNCHANGED <<overflow_checks, panicked, ccVars, rbVars, now, rmVars, control,
                 swVars, sq, tcp, pr, dmVars, ck>>

IpParse ==
  /\ ip.bytes # <<>>
  /\ ip.parsed = None
  /\ ip' = [ip EXCEPT !.parsed = Ipv4Header_parse(ip.bytes)]
  /\ call' = Call("Ipv4Header::parse", <<>>, <<>>)
  /\ UNCHANGED <<overflow_checks, panicked, ccVars, rbVars, now, rmVars, control,
                 swVars, sq, tcp, pr, dmVars, ck>>

NextIp ==
  \/ \E src_addr \in IpAddrs, dst_addr \in IpAddrs, payload_len \in PayloadLens :
       IpNew(src_addr, dst_addr, payload_len)
  \/ IpSerialize
  \/ IpParse

SpecIp == Init /\ [][NextIp]_vars

(*************************** calculate_checksum ****************************)
\* The spans: every span of 2 to MaxSpan bytes out of CkBytes with two
\* adjacent zero bytes, the checksum field, at any offset; and two long
\* spans, the field followed by bytes 0xFF, one of 65537 words that sum to
\* 2^32 - 1 and one of 65538 words that sum to more.  A span is given by its
\* first bytes and the number of 0xFF bytes after them.
CkBytes == {0, 1, 128, 255}
LongFills == {2 * (Limb + 1), 2 * (Limb + 2)}

span_bytes(span) == span.head \o [i \in 1..span.fill |-> 255]

\* The checksum of a span is computed and patched into its field, high byte
\* first, and the checksum of the patched span is computed.
Checksum(span, pos) ==
  /\ call.op = "new"
  /\ LET d == span_bytes(span)
         first == calculate_checksum(d, overflow_checks)
         patched == [d EXCEPT ![pos + 1] = Shr(first.ret, 8),
                              ![pos + 2] = BitAnd(first.ret, 255)]
         second == calculate_checksum(patched, overflow_checks)
     IN  /\ ck' = [span |-> span, pos |-> pos, checksum |-> first.ret,
                   verify |-> second.ret,
                   wide |-> sum_words(d, 0, ((Len(d) + 1) \div 2) - 1).overflow]
         /\ panicked' = (first.panic \/ second.panic)
  /\ call' = Call("calculate_checksum", <<>>, <<>>)
  /\ UNCHANGED <<overflow_checks, ccVars, rbVars, now, rmVars, control,
                 swVars, sq, ip, tcp, pr, dmVars>>

\* A header is built and serialized, and its receiver computes the checksum
\* of the bytes.
VerifyHeader(src_addr, dst_addr, payload_len) ==
  /\ call.op = "new"
  /\ LET h == Ipv4Header_new(src_addr, dst_addr, payload_len)
         bytes == Ipv4Header_serialize(h)
         r == calculate_checksum(bytes, overflow_checks)
     IN  /\ ip' = [h |-> h, bytes |-> bytes, parsed |-> None]
         /\ ck' = [span |-> [head |-> bytes, fill |-> 0], pos |-> 10,
                   checksum |-> u16_from_be_bytes(Slice(bytes, 10, 12)),
                   verify |-> r.ret, wide |-> FALSE]
         /\ panicked' = r.panic
  /\ call' = Call("Ipv4Header::serialize", <<src_addr, dst_addr, payload_len>>, <<>>)
  /\ UNCHANGED <<overflow_checks, ccVars, rbVars, now, rmVars, control,
                 swVars, sq, tcp, pr, dmVars>>

NextChecksum ==
  \/ \E n \in 2..MaxSpan : \E head \in [1..n -> CkBytes], pos \in 0..(n - 2) :
       /\ head[pos + 1] = 0
       /\ head[pos + 2] = 0
       /\ Checksum([head |-> head, fill |-> 0], pos)
  \/ \E fill \in LongFills : Checksum([head |-> <<0, 0>>, fill |-> fill], 0)
  \/ \E src_addr \in IpAddrs, dst_addr \in IpAddrs, payload_len \in PayloadLens :
       VerifyHeader(src_addr, dst_addr, payload_len)

SpecChecksum == Init /\ [][NextChecksum]_vars

(*************************** TcpHeader *************************************)
\* The headers: those of TcpHeader::syn and TcpHeader::syn_ack, and headers
\* built field by field with every flag bit on its own, SYN with ACK, all
\* bits together, and these option lists, the data offset being the length
\* of the options rounded up to a multiple of 4.
TcpPorts == {<<12345, 80>>, <<80, 12345>>}
TcpSeqs == {u32(1000), U32_MAX}
MssInputs == {1460, 536}
TcpFlagInputs == {0, FIN, SYN, RST, PSH, ACK, URG, ECE, CWR, SYN + ACK, 255}
TcpOptionLists ==
  {<<>>,
   <<MaximumSegmentSize(1460)>>,
   <<MaximumSegmentSize(1460), WindowScale(7)>>,
   <<SackPermitted, Sack(u32(1000), u32(2000))>>,
   <<Timestamp(u32(1000), u32(500))>>,
   <<MaximumSegmentSize(536), WindowScale(2), SackPermitted,
     Sack(u32(1), U32_MAX), Timestamp(U32_MAX, u32(0))>>}

\* The data offset that covers the options: 20 bytes and the options,
\* rounded up to whole 32-bit words.
data_offset_for(options) ==
  (TcpHeader_MIN_SIZE + Len(options_bytes(options)) + 3) \div 4

TcpSyn(src_port, dst_port, seq_num, mss) ==
  /\ ~panicked
  /\ tcp' = [h |-> TcpHeader_syn(src_port, dst_port, seq_num, mss),
             bytes |-> <<>>, parsed |-> None]
  /\ call' = Call("TcpHeader::syn", <<src_port, dst_port, seq_num, mss>>, <<>>)
  /\ UNCHANGED <<overflow_checks, panicked, ccVars, rbVars, now, rmVars, control,
                 swVars, sq, ip, pr, dmVars, ck>>

TcpSynAck(src_port, dst_port, seq_num, ack_num, mss) ==
  /\ ~panicked
  /\ tcp' = [h |-> TcpHeader_syn_ack(src_port, dst_port, seq_num, ack_num, mss),
             bytes |-> <<>>, parsed |-> None]
  /\ call' = Call("TcpHeader::syn_ack", <<src_port, dst_port, seq_num, ack_num, mss>>, <<>>)
  /\ UNCHANGED <<overflow_checks, panicked, ccVars, rbVars, now, rmVars, control,
                 swVars, sq, ip, pr, dmVars, ck>>

\* TcpHeader::new and assignments to its public fields.
TcpNew(src_port, dst_port, flags, options) ==
  /\ ~panicked
  /\ tcp' = [h |-> [TcpHeader_new(src_port, dst_port) EXCEPT
                      !.seq_num = U32_MAX,
                      !.ack_num = u32(2000),
                      !.flags = flags,
                      !.window_size = 1024,
                      !.checksum = 48879,
                      !.urgent_pointer = 7,
                      !.options = options,
                      !.data_offset = data_offset_for(options)],
             bytes |-> <<>>, parsed |-> None]
  /\ call' = Call("TcpHeader::new", <<src_port, dst_port, flags, options>>, <<>>)
  /\ UNCHANGED <<overflow_checks, panicked, ccVars, rbVars, now, rmVars, control,
                 swVars, sq, ip, pr, dmVars, ck>>

TcpSerialize ==
  /\ ~panicked
  /\ call.op \in {"TcpHeader::syn", "TcpHeader::syn_ack", "TcpHeader::new"}
  /\ tcp' = [tcp EXCEPT !.bytes = TcpHeader_serialize(tcp.h)]
  /\ call' = Call("TcpHeader::serialize", <<>>, call.op)
  /\ UNCHANGED <<overflow_checks, panicked, ccVars, rbVars, now, rmVars, control,
                 swVars, sq, ip, pr, dmVars, ck>>

TcpParse ==
  /\ ~panicked
  /\ call.op = "TcpHeader::serialize"
  /\ LET r == TcpHeader_parse(tcp.bytes)
     IN  /\ tcp' = [tcp EXCEPT !.parsed = r.ret]
         /\ panicked' = r.panic
  /\ call' = Call("TcpHeader::parse", <<>>, call.pre)
  /\ UNCHANGED <<overflow_checks, ccVars, rbVars, now, rmVars, control,
                 swVars, sq, ip, pr, dmVars, ck>>

NextTcpCodec ==
  \/ \E ports \in TcpPorts, seq_num \in TcpSeqs, mss \in MssInputs :
       TcpSyn(ports[1], ports[2], seq_num, mss)
  \/ \E ports \in TcpPorts, seq_num \in TcpSeqs, mss \in MssInputs :
       TcpSynAck(ports[1], ports[2], seq_num, wrapping_add_u32(seq_num, u32(1)), mss)
  \/ \E ports \in TcpPorts, flags \in TcpFlagInputs, options \in TcpOptionLists :
       TcpNew(ports[1], ports[2], flags, options)
  \/ TcpSerialize
  \/ TcpParse

SpecTcpCodec == Init /\ [][NextTcpCodec]_vars

(*************************** TcpHeader::parse, step by step ****************)
\* The spans given to parse: 20 bytes that announce a header of data_offset
\* words, followed by bytes out of OptionBytes (option kinds, lengths and
\* an unknown kind); the spans of 24 bytes announce 4 bytes of options, and
\* shorter and longer ones come with them.
OptionBytes == {0, 1, 2, 3, 4, 8, 253}

fixed_bytes(data_offset) ==
  Slice(TcpHeader_serialize([TcpHeader_new(12345, 80) EXCEPT !.data_offset = data_offset]),
        0, TcpHeader_MIN_SIZE)

ParseInputs ==
  {fixed_bytes(6) \o area : area \in [1..OptionAreaLen -> OptionBytes]}
    \cup {fixed_bytes(6) \o <<2, 4>>,
          fixed_bytes(4),
          Slice(fixed_bytes(5), 0, 19),
          fixed_bytes(5) \o <<104, 105>>,
          TcpHeader_serialize(TcpHeader_new(12345, 80)),
          fixed_bytes(8) \o <<8, 10, 0, 0, 3, 232, 0, 0, 1, 244, 1, 1>>,
          fixed_bytes(8) \o <<253, 10, 0, 0, 3, 232, 0, 0, 1, 244, 3, 3>>}

\* TcpHeader::parse up to the option loop.
ParseBegin(data) ==
  /\ pr.pc = "idle"
  /\ LET fixed == parse_fixed(data)
     IN  /\ pr' = [data |-> data,
                   options_data |-> fixed.options_data,
                   header |-> fixed.header,
                   pc |-> IF fixed.ok THEN "loop" ELSE "done",
                   offset |-> 0,
                   options |-> <<>>,
                   iterations |-> 0,
                   ret |-> None]
         /\ panicked' = fixed.panic
  /\ call' = Call("TcpHeader::parse", <<>>, <<>>)
  /\ UNCHANGED <<overflow_checks, ccVars, rbVars, now, rmVars, control,
                 swVars, sq, ip, tcp, dmVars, ck>>

\* One iteration of the option loop.
OptionLoop ==
  /\ pr.pc = "loop"
  /\ pr.offset < Len(pr.options_data)
  /\ pr.iterations < MaxIterations
  /\ LET body == option_loop_body(pr.options_data, pr.offset, pr.options)
     IN  pr' = [pr EXCEPT !.offset = body.offset,
                          !.options = body.options,
                          !.pc = IF body.break THEN "end" ELSE "loop",
                          !.iterations = @ + 1]
  /\ UNCHANGED <<overflow_checks, panicked, call, ccVars, rbVars, now, rmVars, control,
                 swVars, sq, ip, tcp, dmVars, ck>>

\* After the loop: the header and the payload are returned.
ParseReturn ==
  /\ \/ pr.pc = "end"
     \/ pr.pc = "loop" /\ pr.offset >= Len(pr.options_data)
  /\ pr' = [pr EXCEPT
              !.pc = "done",
              !.ret = Some(<<[pr.header EXCEPT !.options = pr.options],
                             SliceFrom(pr.data, header_len(pr.header))>>)]
  /\ UNCHANGED <<overflow_checks, panicked, call, ccVars, rbVars, now, rmVars, control,
                 swVars, sq, ip, tcp, dmVars, ck>>

NextTcpParse ==
  \/ \E data \in ParseInputs : ParseBegin(data)
  \/ OptionLoop
  \/ ParseReturn

SpecTcpParse == Init /\ [][NextTcpParse]_vars

(*************************** Demultiplexer *********************************)
\* The inbound headers the keys are built from (two hosts, two ports, both
\* directions) and the connection ids.
DemuxIps ==
  {Ipv4Header_new(<<192, 168, 1, 1>>, <<192, 168, 1, 2>>, 0),
   Ipv4Header_new(<<192, 168, 1, 2>>, <<192, 168, 1, 1>>, 0)}
DemuxTcps == {TcpHeader_new(12345, 80), TcpHeader_new(80, 12345)}
ConnIds == {1, 2}

Register(ip_header, tcp_header, id) ==
  /\ Len(dm_hist.log) < MaxDemuxCalls
  /\ LET key == from_headers(ip_header, tcp_header)[1]
     IN  /\ demux' = register(demux, key, id)
         /\ dm_hist' = [dm_hist EXCEPT !.log = Append(@, <<"register", key, id>>)]
         /\ call' = Call("register", <<key, id, ip_header, tcp_header>>, demux)
  /\ UNCHANGED <<overflow_checks, panicked, ccVars, rbVars, now, rmVars, control,
                 swVars, sq, ip, tcp, pr, dm_ret, ck>>

Unregister(ip_header, tcp_header) ==
  /\ Len(dm_hist.log) < MaxDemuxCalls
  /\ LET key == from_headers(ip_header, tcp_header)[1]
     IN  /\ demux' = unregister(demux, key)
         /\ dm_hist' = [dm_hist EXCEPT !.log = Append(@, <<"unregister", key, 0>>)]
         /\ call' = Call("unregister", <<key, 0, ip_header, tcp_header>>, demux)
  /\ UNCHANGED <<overflow_checks, panicked, ccVars, rbVars, now, rmVars, control,
                 swVars, sq, ip, tcp, pr, dm_ret, ck>>

Find(ip_header, tcp_header) ==
  /\ LET key == from_headers(ip_header, tcp_header)[1]
     IN  /\ dm_ret' = find(demux, key)
         /\ call' = Call("find", <<key, 0, ip_header, tcp_header>>, demux)
  /\ UNCHANGED <<overflow_checks, panicked, ccVars, rbVars, now, rmVars, control,
                 swVars, sq, ip, tcp, pr, demux, dm_hist, ck>>

NextDemux ==
  \/ \E ip_header \in DemuxIps, tcp_header \in DemuxTcps, id \in ConnIds :
       Register(ip_header, tcp_header, id)
  \/ \E ip_header \in DemuxIps, tcp_header \in DemuxTcps : Unregister(ip_header, tcp_header)
  \/ \E ip_header \in DemuxIps, tcp_header \in DemuxTcps : Find(ip_header, tcp_header)

SpecDemux == Init /\ [][NextDemux]_vars

Next ==
  \/ NextNewReno
  \/ NextReorder
  \/ NextRetransmit
  \/ NextConn
  \/ NextWindow
  \/ NextSeq
  \/ NextIp
  \/ NextChecksum
  \/ NextTcpCodec
  \/ NextTcpParse
  \/ NextDemux

Spec == Init /\ [][Next]_vars

(***************************************************************************)
(* Properties of NewReno                                                   *)
(***************************************************************************)
\* a after b in the half-range order: (a - b) mod 2^32 lies in [1, 2^31).
SeqAfter(a, b) ==
  LET d == wrapping_sub_u32(a, b)
  IN  d # u32(0) /\ d[1] < Half

\* max(cwnd / 2, 2920)
HalvedWindow(cwnd) ==
  IF lt_u32(half_u32(cwnd), u32(2920)) THEN u32(2920) ELSE half_u32(cwnd)

\* C7: counting duplicate ACKs from dup_acks = 0 with no on_ack or on_timeout
\* in between, the third on_duplicate_ack sets ssthresh = max(cwnd/2, 2920),
\* cwnd = ssthresh + 4380 and state = FAST_RECOVERY (cwnd being the window
\* before the call); the first and the second leave cwnd, ssthresh and state
\* as they were.
C7_ThirdDuplicateAck ==
  (call.op = "on_duplicate_ack" /\ ~panicked) =>
    /\ cc_hist.consec_dups = 3 =>
         /\ cc.ssthresh = HalvedWindow(call.pre.cwnd)
         /\ ~add_overflows(cc.ssthresh, u32(4380))
         /\ cc.cwnd = wrapping_add_u32(cc.ssthresh, u32(4380))
         /\ cc.state = "FastRecovery"
    /\ cc_hist.consec_dups \in {1, 2} =>
         /\ cc.cwnd = call.pre.cwnd
         /\ cc.ssthresh = call.pre.ssthresh
         /\ cc.state = call.pre.state

\* A third duplicate ACK has arrived on a window above four segments, so that
\* cwnd/2 is the larger term.
C7_Witness ==
  /\ call.op = "on_duplicate_ack"
  /\ cc_hist.consec_dups = 3
  /\ cc.state = "FastRecovery"
  /\ gt_u32(cc.ssthresh, u32(2920))

\* C8: once on_timeout has been called, cwnd >= 1460 whatever calls follow;
\* once a loss event (a third duplicate ACK or a timeout) has happened,
\* ssthresh >= 2920.
C8_WindowFloors ==
  /\ cc_hist.timed_out => ge_u32(cc.cwnd, u32(1460))
  /\ cc_hist.loss_seen => ge_u32(cc.ssthresh, u32(2920))

\* C9: on_timeout, in any congestion state, sets ssthresh =
\* max(cwnd_before/2, 2920), cwnd = 1460, state = SLOW_START, dup_acks = 0.
C9_OnTimeout ==
  call.op = "on_timeout" =>
    /\ cc.ssthresh = HalvedWindow(call.pre.cwnd)
    /\ cc.cwnd = u32(1460)
    /\ cc.state = "SlowStart"
    /\ cc.dup_acks = 0

\* The timeout struck in fast recovery, with duplicate ACKs counted and a
\* window whose half is above two segments.
C9_Witness ==
  /\ call.op = "on_timeout"
  /\ call.pre.state = "FastRecovery"
  /\ call.pre.dup_acks >= 3
  /\ gt_u32(cc.ssthresh, u32(2920))

\* C10: in FAST_RECOVERY, on_ack(ack, n) with ack after last_cwnd_reduction
\* sets cwnd = ssthresh and state = CONGESTION_AVOIDANCE; with ack not after
\* it, cwnd, ssthresh and state stay; dup_acks becomes 0 in both cases.
C10_FastRecoveryAck ==
  (call.op = "on_ack" /\ call.pre.state = "FastRecovery") =>
    /\ ~panicked
    /\ cc.ssthresh = call.pre.ssthresh
    /\ cc.dup_acks = 0
    /\ IF SeqAfter(call.args[1], call.pre.last_cwnd_reduction)
       THEN cc.cwnd = call.pre.ssthresh /\ cc.state = "CongestionAvoidance"
       ELSE cc.cwnd = call.pre.cwnd /\ cc.state = "FastRecovery"

\* An ACK beyond the reduction point has completed a recovery.
C10_Witness ==
  /\ call.op = "on_ack"
  /\ call.pre.state = "FastRecovery"
  /\ call.pre.dup_acks >= 3
  /\ cc.state = "CongestionAvoidance"
  /\ cc.cwnd # call.pre.cwnd

\* The number a limb pair stands for, where it is below 2^31.
Val(x) == x[1] * Limb + x[2]

\* floor(1460 * n / cwnd) for byte counts of a few segments, in the integers.
AvoidanceStep(cwnd, n) ==
  IF cwnd[1] < Half THEN u32((1460 * Val(n)) \div Val(cwnd)) ELSE u32(0)

\* C11: on_ack(ack, n) with n > 0 grows the window by the rule of the state.
\* In SLOW_START cwnd becomes cwnd + n and, if that is >= ssthresh, the state
\* becomes CONGESTION_AVOIDANCE with cwnd = ssthresh + 2920, else it stays
\* SLOW_START; in CONGESTION_AVOIDANCE cwnd becomes cwnd + floor(1460*n/cwnd)
\* and the state stays; so cwnd does not decrease on an ACK in these states.
\* The sums are those of the integers: none of them passes 2^32.
C11_OnAckGrowth ==
  (call.op = "on_ack" /\ call.args[2] # u32(0)) =>
    LET pre == call.pre
        n == call.args[2]
    IN  /\ pre.state = "SlowStart" =>
             /\ ~panicked
             /\ ~add_overflows(pre.cwnd, n)
             /\ ge_u32(cc.cwnd, pre.cwnd)
             /\ IF ge_u32(wrapping_add_u32(pre.cwnd, n), pre.ssthresh)
                THEN /\ cc.state = "CongestionAvoidance"
                     /\ ~add_overflows(pre.ssthresh, u32(2920))
                     /\ cc.cwnd = wrapping_add_u32(pre.ssthresh, u32(2920))
                ELSE /\ cc.state = "SlowStart"
                     /\ cc.cwnd = wrapping_add_u32(pre.cwnd, n)
        /\ (pre.state = "CongestionAvoidance" /\ n[1] = 0) =>
             /\ ~panicked
             /\ cc.state = "CongestionAvoidance"
             /\ ~add_overflows(pre.cwnd, AvoidanceStep(pre.cwnd, n))
             /\ cc.cwnd = wrapping_add_u32(pre.cwnd, AvoidanceStep(pre.cwnd, n))
             /\ ge_u32(cc.cwnd, pre.cwnd)
        /\ (pre.state = "CongestionAvoidance" /\ n[1] # 0) =>
             /\ ~panicked
             /\ cc.state = "CongestionAvoidance"
             /\ ge_u32(cc.cwnd, pre.cwnd)

\* C31: within one fast-recovery episode the window is reduced only once:
\* an on_duplicate_ack call made while the state is FAST_RECOVERY leaves
\* ssthresh and the state as they were and adds 1460 to cwnd, whatever on_ack
\* calls that left the state FAST_RECOVERY came before it.
C31_SingleReduction ==
  (call.op = "on_duplicate_ack" /\ call.pre.state = "FastRecovery") =>
    /\ ~panicked
    /\ cc.ssthresh = call.pre.ssthresh
    /\ cc.state = "FastRecovery"
    /\ ~add_overflows(call.pre.cwnd, u32(1460))
    /\ cc.cwnd = wrapping_add_u32(call.pre.cwnd, u32(1460))

\* The part of C31 about ssthresh alone: no on_duplicate_ack call made in
\* FAST_RECOVERY changes ssthresh.
SsthreshKeptInRecovery ==
  (call.op = "on_duplicate_ack" /\ call.pre.state = "FastRecovery" /\ ~panicked) =>
    cc.ssthresh = call.pre.ssthresh

(***************************************************************************)
(* Properties of the ReorderBuffer                                         *)
(***************************************************************************)
\* The concatenation of the payloads of a sequence of runs <<seq, data>>.
RECURSIVE Bytes(_)
Bytes(runs) == IF runs = <<>> THEN <<>> ELSE Head(runs)[2] \o Bytes(Tail(runs))

\* Each run starts where the one before it ended, the first at pos.
RECURSIVE Contiguous(_, _)
Contiguous(runs, pos) ==
  \/ runs = <<>>
  \/ /\ Head(runs)[1] = pos
     /\ Contiguous(Tail(runs), wrapping_add_u32(pos, u32(Len(Head(runs)[2]))))

\* The bytes of the stream the segments given so far make up from pos on: the
\* segment that starts at pos, then the one that starts where it ends, ...
RECURSIVE Stream(_, _, _)
Stream(offered, pos, fuel) ==
  LET here == {o \in offered : o.seq = pos /\ o.data # <<>>}
  IN  IF fuel = 0 \/ here = {} THEN <<>>
      ELSE LET o == CHOOSE x \in here : TRUE
           IN  o.data \o Stream(offered, wrapping_add_u32(pos, u32(Len(o.data))), fuel - 1)

\* C1: after add calls whose segments are pairwise non-overlapping, in any
\* arrival order, the runs returned so far, concatenated in the order
\* returned, are the bytes of the contiguous stream that starts at the
\* initial next_expected, each byte once and in ascending sequence order, and
\* next_expected is the initial value plus the number of bytes delivered.
C1_InOrderDelivery ==
  rb_hist.clean =>
    /\ Contiguous(rb_hist.runs, rb_hist.init_next)
    /\ Bytes(rb_hist.runs) =
         Stream(rb_hist.offered, rb_hist.init_next, Cardinality(rb_hist.offered))
    /\ rb.next_expected =
         wrapping_add_u32(rb_hist.init_next, u32(Len(Bytes(rb_hist.runs))))

\* C3: add(seq, data) stores nothing and returns no runs when a byte of
\* [seq, seq+len) mod 2^32 lies inside a held segment, also across the wrap;
\* so the held segments are pairwise disjoint in every reachable state.
C3_OverlapRejected ==
  /\ (call.op = "add" /\ ~panicked
        /\ \E start \in DOMAIN call.pre.segments :
             RangesOverlap(start, Len(call.pre.segments[start]),
                           call.args[1], Len(call.args[2])))
       => (rb = call.pre /\ rb_ret = <<>>)
  /\ \A s1, s2 \in DOMAIN rb.segments :
       s1 # s2 => ~RangesOverlap(s1, Len(rb.segments[s1]), s2, Len(rb.segments[s2]))

\* C15: the buffer never holds more than 1 MiB accounted as segment count
\* times MSS: (number of held segments) * 1460 <= 1048576 in every state.
C15_BufferCap == Cardinality(DOMAIN rb.segments) * 1460 <= 1048576

\* a before b in the half-range order: (b - a) mod 2^32 lies in [1, 2^31).
SeqBefore(a, b) ==
  LET d == wrapping_sub_u32(b, a)
  IN  d # u32(0) /\ d[1] < Half

\* C16: add(seq, data) with seq before next_expected is rejected: it returns
\* no runs and leaves the held segments and next_expected as they were, so a
\* segment that was delivered is not delivered again.
C16_StaleRejected ==
  (call.op = "add" /\ SeqBefore(call.args[1], call.pre.next_expected)) =>
    /\ ~panicked
    /\ rb_ret = <<>>
    /\ rb = call.pre

\* A segment that was delivered is offered again, behind the delivery point
\* and with a later segment still held.
C16_Witness ==
  /\ call.op = "add"
  /\ call.args[2] # <<>>
  /\ \E i \in 1..Len(rb_hist.runs) : rb_hist.runs[i] = <<call.args[1], call.args[2]>>
  /\ SeqBefore(call.args[1], call.pre.next_expected)
  /\ DOMAIN rb.segments # {}

C30_HeldAheadOfDelivery ==
  /\ \A start \in DOMAIN rb.segments : SeqAfter(start, rb.next_expected)
  /\ (call.op = "add" /\ ~panicked) =>
       rb.next_expected =
         wrapping_add_u32(call.pre.next_expected, u32(Len(Bytes(rb_ret))))

(***************************************************************************)
(* Properties of the RetransmissionManager                                 *)
(***************************************************************************)
\* a at or before b in the half-range order: (b - a) mod 2^32 < 2^31.
SeqAtOrBefore(a, b) == wrapping_sub_u32(b, a)[1] < Half

\* C2: acknowledge(ack) removes and returns exactly the pending segments
\* whose end seq+len is at or before ack in the wrap-aware order, and leaves
\* every other pending segment in place, also when seq+len or ack has wrapped.
C2_AcknowledgeWrapAware ==
  call.op = "acknowledge" =>
    LET before_call == call.pre.pending
        ack == call.args[1]
        due == {k \in DOMAIN before_call :
                  SeqAtOrBefore(wrapping_add_u32(before_call[k].seq, before_call[k].len), ack)}
    IN  /\ rm_ret.elems = {before_call[k] : k \in due}
        /\ rm.pending = [k \in (DOMAIN before_call) \ due |-> before_call[k]]

\* C5: a pending segment is returned for retransmission at most 15 times, and
\* every returned clone carries a retransmit_count from 1 to 15.
C5_RetryCap ==
  /\ \A k \in DOMAIN rm.pending : rm_hist.returned[k] <= 15
  /\ call.op = "get_retransmit_segments" =>
       \A seg \in rm_ret.elems : seg.retransmit_count \in 1..15

\* The timer has expired a sixteenth time on a segment: it was returned 15
\* times, and this call counted it to 16 and held it back.
C5_Witness ==
  /\ call.op = "get_retransmit_segments"
  /\ \E k \in DOMAIN rm.pending :
       /\ rm.pending[k].retransmit_count = 16
       /\ rm_hist.returned[k] = 15
       /\ call.pre.pending[k].retransmit_count = 15
       /\ \A seg \in rm_ret.elems : seg.seq # k

\* C6: when a pending segment reaches 15 retries, the caller of
\* get_retransmit_segments receives a fatal connection error: an outcome that
\* is not an ordinary list of segments.
C6_FatalErrorSignalled ==
  (/\ call.op = "get_retransmit_segments"
   /\ should_retransmit(call.pre, now)
   /\ \E k \in DOMAIN rm.pending : rm.pending[k].retransmit_count >= 15)
    => (rm_ret.kind # "Vec" \/ panicked)

C13_RetransmitStep ==
  (call.op = "get_retransmit_segments" /\ should_retransmit(call.pre, now)) =>
    LET old == call.pre.pending
    IN  /\ DOMAIN rm.pending = DOMAIN old
        /\ \A k \in DOMAIN old :
             rm.pending[k] = [old[k] EXCEPT !.retransmit_count = old[k].retransmit_count + 1]
        /\ rm.timer.deadline = Some(now + 2 * call.args[1])
        /\ ~should_retransmit(rm, now)
        /\ (Cardinality(DOMAIN old) = 1
              /\ \A k \in DOMAIN old : old[k].retransmit_count = 0)
             => rm_ret = Vec({[old[k] EXCEPT !.retransmit_count = 1] : k \in DOMAIN old})

\* The timer fired on a single segment that had not been retransmitted, and
\* the call returned it with retransmit_count 1.
C13_Witness ==
  /\ call.op = "get_retransmit_segments"
  /\ should_retransmit(call.pre, now)
  /\ Cardinality(DOMAIN call.pre.pending) = 1
  /\ Cardinality(rm_ret.elems) = 1
  /\ \A seg \in rm_ret.elems : seg.retransmit_count = 1

\* C32: get_retransmit_segments never removes a segment from the pending set:
\* the segments pending after the call are those pending before it, each with
\* its seq, len and first_sent (so a segment counted past its 15th retry is
\* still pending).  Called while the timer has not expired (it is not armed,
\* or its deadline is still ahead) or while nothing is pending, it returns an
\* empty list and leaves every retransmit_count and the timer's deadline as
\* they were.
C32_RetransmitFrame ==
  call.op = "get_retransmit_segments" =>
    LET old == call.pre.pending
        expired == /\ call.pre.timer.deadline # None
                   /\ now >= call.pre.timer.deadline[1]
    IN  /\ DOMAIN rm.pending = DOMAIN old
        /\ \A k \in DOMAIN old :
             /\ rm.pending[k].seq = old[k].seq
             /\ rm.pending[k].len = old[k].len
             /\ rm.pending[k].first_sent = old[k].first_sent
        /\ (~expired \/ DOMAIN old = {}) =>
             /\ rm_ret = Vec({})
             /\ \A k \in DOMAIN old :
                  rm.pending[k].retransmit_count = old[k].retransmit_count
             /\ rm.timer.deadline = call.pre.timer.deadline

\* A segment was counted to 16 and held back, the timer was re-armed, and
\* get_retransmit_segments was called again before the new deadline: the call
\* returned nothing and the segment is still pending with its count of 16.
C32_Witness ==
  /\ call.op = "get_retransmit_segments"
  /\ call.pre.timer.deadline # None
  /\ now < call.pre.timer.deadline[1]
  /\ rm_ret = Vec({})
  /\ \E k \in DOMAIN rm.pending :
       /\ call.pre.pending[k].retransmit_count = 16
       /\ rm.pending[k].retransmit_count = 16

\* C14: add_segment(seg, rto) starts the timer if and only if nothing was
\* pending before the call; a call made while a segment is pending (also one
\* that re-adds the seq of the only pending segment) leaves the timer's
\* deadline as it was.
C14_TimerStartedOnFirst ==
  call.op = "add_segment" =>
    IF DOMAIN call.pre.pending = {}
    THEN rm.timer.deadline = Some(now + call.args[3])
    ELSE rm.timer.deadline = call.pre.timer.deadline

\* C28: in every state reached through add_segment, acknowledge,
\* get_retransmit_segments and clear the timer has a deadline if and only if
\* a segment is pending; so nothing pending never reports
\* should_retransmit().
C28_TimerArmedIffPending ==
  /\ (rm.timer.deadline # None) <=> (pending_count(rm) > 0)
  /\ pending_count(rm) = 0 => ~should_retransmit(rm, now)

\* clear was called on a manager with two segments pending and its timer
\* expired.
C28_Witness ==
  /\ call.op = "clear"
  /\ pending_count(call.pre) = 2
  /\ is_expired(call.pre.timer, now)
  /\ rm.timer.deadline = None

(***************************************************************************)
(* Properties of the SlidingWindow                                         *)
(***************************************************************************)
\* next lies in [left_edge, right_edge]: it is at most size bytes past the
\* left edge.
InWindow(w, next) == le_u32(wrapping_sub_u32(next, w.left_edge), w.size)

\* available(next) + (next - left_edge) = size, mod 2^32, at the last call.
AvailableAddsUp ==
  wrapping_add_u32(sw_ret, wrapping_sub_u32(call.args[1], sw.left_edge)) = sw.size

\* C17 as stated: for every window, of any u32 size and left edge, and every
\* next in [left_edge, right_edge], available(next) + (next - left_edge)
\* mod 2^32 equals size.
C17_AvailableAnySize ==
  (call.op = "available" /\ InWindow(sw, call.args[1])) => AvailableAddsUp

\* C17 amended: the same for every window whose size is at most 2^31.
C17_AvailableUpToHalfRange ==
  (call.op = "available" /\ InWindow(sw, call.args[1]) /\ le_u32(sw.size, <<Half, 0>>))
    => AvailableAddsUp

\* available was asked inside a window of 1000 bytes that has been advanced,
\* 500 bytes past its left edge.
C17_Witness ==
  /\ call.op = "available"
  /\ sw.size = u32(1000)
  /\ sw.left_edge # u32(0)
  /\ call.args[1] = wrapping_add_u32(sw.left_edge, u32(500))
  /\ sw_ret = u32(500)

\* C18: after any sequence of new, advance and set_size calls right_edge =
\* left_edge + size (mod 2^32); advance(ack) moves left_edge, to ack, only
\* when ack is after left_edge; set_size leaves left_edge as it was.
C18_WindowEdges ==
  /\ sw.right_edge = wrapping_add_u32(sw.left_edge, sw.size)
  /\ call.op = "advance" =>
       /\ sw.size = call.pre.size
       /\ sw.left_edge = IF SeqAfter(call.args[1], call.pre.left_edge)
                         THEN call.args[1] ELSE call.pre.left_edge
  /\ call.op = "set_size" =>
       /\ sw.size = call.args[1]
       /\ sw.left_edge = call.pre.left_edge

\* The size of an advanced window was changed so that its right edge lies
\* past the wrap.
C18_Witness ==
  /\ call.op = "set_size"
  /\ sw.size # call.pre.size
  /\ sw.left_edge # u32(0)
  /\ lt_u32(sw.right_edge, sw.left_edge)

\* The first half of C19: can_send(seq, len) is true if and only if seq + len
\* (mod 2^32) is not after right_edge.
CanSendIffNotAfterEdge ==
  sw_ok = ~SeqAfter(wrapping_add_u32(call.args[1], call.args[2]), sw.right_edge)

\* C19 as stated: can_send(seq, len) is true iff seq + len is not after
\* right_edge; and for a window of size S with left edge L a segment that
\* starts at L is sendable exactly when len <= S, also after an advance.
C19_CanSendAnySize ==
  call.op = "can_send" =>
    /\ CanSendIffNotAfterEdge
    /\ call.args[1] = sw.left_edge => (sw_ok = le_u32(call.args[2], sw.size))

\* C19 amended: the second half for S <= 2^31 and len < 2^31.
C19_CanSendUpToHalfRange ==
  call.op = "can_send" =>
    /\ CanSendIffNotAfterEdge
    /\ (call.args[1] = sw.left_edge /\ le_u32(sw.size, <<Half, 0>>)
          /\ call.args[2][1] < Half)
         => (sw_ok = le_u32(call.args[2], sw.size))

\* A segment that fills an advanced window of 1000 bytes exactly may be sent.
C19_Witness ==
  /\ call.op = "can_send"
  /\ sw.left_edge # u32(0)
  /\ sw.size = u32(1000)
  /\ call.args = <<sw.left_edge, u32(1000)>>
  /\ sw_ok

(***************************************************************************)
(* Properties of SeqNumber                                                 *)
(***************************************************************************)
\* x.before(y) iff (y - x) mod 2^32 lies in [1, 2^31), and x.after(y) iff
\* y.before(x), for the numbers last compared.
BeforeIsHalfRange ==
  /\ sq.a_before_b = SeqBefore(sq.a, sq.b)
  /\ sq.b_before_c = SeqBefore(sq.b, sq.c)
  /\ sq.a_before_c = SeqBefore(sq.a, sq.c)
  /\ sq.b_after_a = sq.a_before_b

\* C20 as stated: the order is transitive over the whole 32-bit space: for
\* all a, b, c with a.before(b) and b.before(c), a.before(c).
C20_Transitive ==
  /\ BeforeIsHalfRange
  /\ (sq.a_before_b /\ sq.b_before_c) => sq.a_before_c

\* C20 amended: a.before(b) and b.before(c) give a.before(c) when the two
\* steps together are shorter than half the range: (b - a) + (c - b) < 2^31.
C20_TransitiveInWindow ==
  /\ BeforeIsHalfRange
  /\ (sq.a_before_b /\ sq.b_before_c
        /\ wrapping_add_u32(wrapping_sub_u32(sq.b, sq.a),
                            wrapping_sub_u32(sq.c, sq.b))[1] < Half)
       => sq.a_before_c

\* Three numbers in ascending order across the wrap point.
C20_Witness ==
  /\ call.op = "before"
  /\ sq.a = U32_MAX /\ sq.b = u32(0) /\ sq.c = u32(1)
  /\ sq.a_before_b /\ sq.b_before_c /\ sq.a_before_c

(***************************************************************************)
(* Properties of the connection state                                      *)
(***************************************************************************)
\* The transitions of the RFC 793 state machine.
Rfc793Transitions ==
  {<<"Closed", "Listen">>, <<"Closed", "SynSent">>, <<"Closed", "SynReceived">>,
   <<"Listen", "SynReceived">>, <<"Listen", "SynSent">>, <<"Listen", "Closed">>,
   <<"SynSent", "Established">>, <<"SynSent", "SynReceived">>, <<"SynSent", "Closed">>,
   <<"SynReceived", "Established">>, <<"SynReceived", "FinWait1">>,
   <<"SynReceived", "Listen">>, <<"SynReceived", "Closed">>,
   <<"Established", "FinWait1">>, <<"Established", "CloseWait">>,
   <<"Established", "Closed">>,
   <<"FinWait1", "FinWait2">>, <<"FinWait1", "Closing">>, <<"FinWait1", "TimeWait">>,
   <<"FinWait1", "Closed">>,
   <<"FinWait2", "TimeWait">>, <<"FinWait2", "Closed">>,
   <<"CloseWait", "LastAck">>, <<"CloseWait", "Closed">>,
   <<"Closing", "TimeWait">>, <<"Closing", "Closed">>,
   <<"LastAck", "Closed">>,
   <<"TimeWait", "Closed">>}

\* C4: the connection's state changes only along a transition of the RFC 793
\* state machine; no operation of TcpConnection moves it between two states
\* that no transition joins (such as CLOSED to ESTABLISHED).
C4_PermittedTransitions ==
  [][control'.state # control.state =>
       <<control.state, control'.state>> \in Rfc793Transitions]_vars

(***************************************************************************)
(* Properties of the TCP header codec                                      *)
(***************************************************************************)
\* Whether the header's data offset covers its options: 20 bytes and the
\* bytes of the options, rounded up to whole 32-bit words.
DataOffsetMatches(h) ==
  h.data_offset = (20 + Len(options_bytes(h.options)) + 3) \div 4

\* Whether the header last serialized came from TcpHeader::syn or syn_ack.
SynBuilt == call.pre \in {"TcpHeader::syn", "TcpHeader::syn_ack"}

\* C21: for every TcpHeader h whose data offset matches its options, and for
\* the headers built by syn and syn_ack, parse(serialize(h)) succeeds and
\* returns h in every field (ports, sequence and acknowledgement numbers,
\* data offset, the 8 flag bits, window, urgent pointer and the options in
\* order), with the checksum field zero.
C21_RoundTrip ==
  (/\ call.op = "TcpHeader::parse"
   /\ DataOffsetMatches(tcp.h) \/ SynBuilt)
    => /\ ~panicked
       /\ tcp.parsed # None
       /\ tcp.parsed[1][1] = [tcp.h EXCEPT !.checksum = 0]

\* C22: the bytes of serialize are exactly data_offset * 4 long, a multiple
\* of 4, and zero after the options; so for the headers of syn and syn_ack,
\* whose options are MSS, SACK-permitted, Timestamp and Window Scale in
\* this order and are all in the bytes.
C22_SerializedLength ==
  call.op = "TcpHeader::serialize" =>
    LET option_bytes == options_bytes(tcp.h.options)
    IN  /\ Len(tcp.bytes) = tcp.h.data_offset * 4
        /\ Len(tcp.bytes) % 4 = 0
        /\ \A i \in (20 + Len(option_bytes) + 1)..Len(tcp.bytes) : tcp.bytes[i] = 0
        /\ SynBuilt =>
             /\ [i \in 1..Len(tcp.h.options) |-> tcp.h.options[i][1]] =
                  <<"MaximumSegmentSize", "SackPermitted", "Timestamp", "WindowScale">>
             /\ SubSeq(tcp.bytes, 21, 20 + Len(option_bytes)) = option_bytes

\* Whether the option at the loop's offset is malformed: an option of more
\* than one byte (any kind but 0 and 1) whose length byte is missing, is
\* less than 2 or reaches past the end of the options.
MalformedOption(options_data, offset) ==
  LET rest == SubSeq(options_data, offset + 1, Len(options_data))
  IN  /\ rest # <<>>
      /\ rest[1] \notin {0, 1}
      /\ \/ Len(rest) < 2
         \/ rest[2] < 2
         \/ rest[2] > Len(rest)

\* C23: TcpHeader::parse terminates: every iteration of the option loop that
\* stays in the loop has moved the offset forward by at least one byte; an
\* iteration that meets a malformed option leaves the loop with the options
\* unchanged; and after the loop the segment is returned with the options
\* parsed so far.
C23_OptionLoopTerminates ==
  [][/\ (pr.pc = "loop" /\ pr'.iterations = pr.iterations + 1) =>
          /\ pr'.pc = "loop" => pr'.offset > pr.offset
          /\ MalformedOption(pr.options_data, pr.offset) =>
               pr'.pc = "end" /\ pr'.options = pr.options
     /\ (pr.pc \in {"loop", "end"} /\ pr'.pc = "done") =>
          /\ pr'.ret # None
          /\ pr'.ret[1][1].options = pr.options]_vars

(***************************************************************************)
(* Properties of the IPv4 header and of the checksum                       *)
(***************************************************************************)
\* C24: the bytes of Ipv4Header::new(src, dst, payload_len).serialize() are
\* 20, with version 4 and IHL 5 in the first byte, DF (0x40) set in byte 6
\* and a fragment offset of 0, TTL 64 and protocol 6; and parse of the
\* bytes returns the flags the header was built with, 0x40.
C24_Ipv4Emitted ==
  ip.bytes # <<>> =>
    /\ Len(ip.bytes) = 20
    /\ ip.bytes[1] \div 16 = 4
    /\ ip.bytes[1] % 16 = 5
    /\ (ip.bytes[7] \div 64) % 2 = 1
    /\ (ip.bytes[7] % 32) * 256 + ip.bytes[8] = 0
    /\ ip.bytes[9] = 64
    /\ ip.bytes[10] = 6
    /\ ip.parsed # None =>
         /\ ip.parsed[1][1].flags = ip.h.flags
         /\ ip.parsed[1][1].flags = 64

\* The sum of the 16-bit big-endian words of a span, an odd last byte being
\* the high byte of its word (for spans short enough for the sum to stay
\* below 2^31).
RECURSIVE WordSum(_)
WordSum(bytes) ==
  IF bytes = <<>> THEN 0
  ELSE IF Len(bytes) = 1 THEN bytes[1] * 256
  ELSE bytes[1] * 256 + bytes[2] + WordSum(SubSeq(bytes, 3, Len(bytes)))

\* Whether the one's-complement sum of the span, carries folded, is 0xFFFF:
\* the sum of the words is a multiple of 0xFFFF other than 0.
SumIsAllOnes(bytes) == WordSum(bytes) # 0 /\ WordSum(bytes) % 65535 = 0

\* The short span of the last run with its checksum patched into the field.
Patched ==
  [ck.span.head EXCEPT ![ck.pos + 1] = ck.checksum \div 256,
                       ![ck.pos + 2] = ck.checksum % 256]

\* The checksum was computed over a span, patched in and recomputed, nothing
\* panicked, and the patched span verifies: its checksum is 0 and (for the
\* spans given byte by byte) its folded sum is 0xFFFF.
Verifies ==
  /\ ~panicked
  /\ ck.verify = 0
  /\ ck.span.fill = 0 => SumIsAllOnes(Patched)

\* C25 as stated: for every span with a zeroed 16-bit checksum field,
\* wherever the field lies and however long the span, the span with its
\* checksum patched in verifies; so do the 20 bytes of a serialized IPv4
\* header.
C25_ChecksumVerifies == ck.span.head # <<>> => Verifies

\* C25, amended: for every span of even or odd length whose checksum field
\* lies at an even offset and whose 16-bit words sum to less than 2^32 (every
\* span of up to 131076 bytes), the span with its checksum patched in
\* verifies; so do the 20 bytes of a serialized IPv4 header.
C25_AlignedChecksumVerifies ==
  (ck.span.head # <<>> /\ ck.pos % 2 = 0 /\ ~ck.wide) =>
    /\ Verifies
    /\ call.op = "Ipv4Header::serialize" => Len(ck.span.head) = 20 /\ ck.pos = 10

\* A span of 5 bytes with the field in the middle, a carry to fold and an
\* odd last byte.
C25_Witness ==
  /\ call.op = "calculate_checksum"
  /\ ck.span = [head |-> <<255, 255, 0, 0, 128>>, fill |-> 0]
  /\ ck.pos = 2
  /\ ck.checksum = 32767
  /\ ck.verify = 0

(***************************************************************************)
(* Properties of the Demultiplexer                                         *)
(***************************************************************************)
\* What find should return for a key after the calls of a log: the id of the
\* last register of the key, unless an unregister of the key came after it.
RECURSIVE LastRegistered(_, _)
LastRegistered(log, key) ==
  IF log = <<>> THEN None
  ELSE LET last == log[Len(log)]
       IN  IF last[2] = key
           THEN IF last[1] = "register" THEN Some(last[3]) ELSE None
           ELSE LastRegistered(SubSeq(log, 1, Len(log) - 1), key)

\* The key of an inbound segment: it is addressed to the local end.
InboundKey(ip_header, tcp_header) ==
  [local |-> <<ip_header.dst_addr, tcp_header.dst_port>>,
   remote |-> <<ip_header.src_addr, tcp_header.src_port>>]

DemuxKeys == {InboundKey(i, t) : i \in DemuxIps, t \in DemuxTcps}

\* C26: after any register and unregister calls, find(k) returns the id of
\* the last register(k, id) that no unregister(k) followed, and nothing
\* otherwise; a register of a present key replaces its id; a call on one key
\* leaves find of every other key as it was; and the key of inbound headers
\* is (local = (ip.dst, tcp.dst_port), remote = (ip.src, tcp.src_port)).
C26_FindLastRegistered ==
  /\ \A key \in DemuxKeys : find(demux, key) = LastRegistered(dm_hist.log, key)
  /\ call.op = "find" => dm_ret = LastRegistered(dm_hist.log, call.args[1])
  /\ call.op = "register" => find(demux, call.args[1]) = Some(call.args[2])
  /\ call.op \in {"register", "unregister"} =>
       \A key \in DemuxKeys \ {call.args[1]} : find(demux, key) = find(call.pre, key)
  /\ call.op \in {"register", "unregister", "find"} =>
       call.args[1] = InboundKey(call.args[3], call.args[4])

\* A key was registered with id 1 and then with id 2, another key was
\* unregistered, and find of the first key returned 2.
C26_Witness ==
  /\ call.op = "find"
  /\ dm_ret = Some(2)
  /\ Len(dm_hist.log) = 3
  /\ dm_hist.log[1] = <<"register", call.args[1], 1>>
  /\ dm_hist.log[2] = <<"register", call.args[1], 2>>
  /\ dm_hist.log[3][1] = "unregister"
  /\ dm_hist.log[3][2] # call.args[1]

(***************************************************************************)
(* Properties of the connection's abort                                    *)
(***************************************************************************)
\* C27: when the retry ceiling is reached (get_retransmit_segments finds a
\* pending segment past max_retries), the connection is aborted in that
\* step: afterwards should_retransmit() is false, pending_count() is 0, the
\* reorder buffer holds no segment and find returns nothing.
C27_AbortReleasesAll ==
  (/\ call.op = "get_retransmit_segments"
   /\ should_retransmit(call.pre, now)
   /\ \E k \in DOMAIN rm.pending : rm.pending[k].retransmit_count > max_retries)
    => /\ ~should_retransmit(rm, now)
       /\ pending_count(rm) = 0
       /\ DOMAIN rb.segments = {}
       /\ \A key \in DemuxKeys : find(demux, key) = None

=============================================================================
